---- MODULE Spec2Model ----
(***************************************************************************)
(* A model of foxyapply's application-wizard automation:                   *)
(*   - ExtractJobID, the pure function that reads a job identifier out of  *)
(*     a posting link (specification SpecExtract);                         *)
(*   - FillOutEasyApplyForm, the bounded loop that drives the Easy Apply   *)
(*     wizard (specification SpecWizard);                                  *)
(*   - ChooseValue, the resolver that picks the answer for a form field    *)
(*     (specification SpecChoose);                                         *)
(*   - StartApplying, the campaign loop, with the service call that starts *)
(*     it and the applying flag (specification SpecCampaign), and a second *)
(*     service call made meanwhile (specification SpecSession);            *)
(*   - the profile store: the linkedin_profiles table and the calls that   *)
(*     create, read, list, update and delete its rows (specification       *)
(*     SpecStore);                                                         *)
(*   - hasErrors and handleInlineErrors, the engine's two readers of the   *)
(*     inline error marker, on a page that stands still (specification     *)
(*     SpecInline).                                                        *)
(* A link is a sequence of characters; a character is a one-letter string. *)
(***************************************************************************)
EXTENDS Integers, Sequences, FiniteSets, TLC

VARIABLES
    href,        \* ExtractJobID: the link handed to the function
    epc,         \* ExtractJobID: "call" before the call, "done" after it
    ret          \* ExtractJobID: what the call produced

VARIABLES
    pc,          \* FillOutEasyApplyForm: where the engine stands
    i,           \* the outer loop's counter
    j,           \* the index into buttons of the action being examined
    submitted,   \* the engine's submitted flag
    fret         \* what FillOutEasyApplyForm returned: (submitted, err)

\* What an observer of the engine's run has seen so far.
VARIABLES
    attempts,         \* calls of clickWhenClickable made in this run
    iterChecked,      \* actions whose presence was checked in this iteration
    iterAttempted,    \* actions attempted in this iteration
    iterSucceeded,    \* actions whose attempt succeeded in this iteration
    iterDispatched,   \* actions that succeeded with an interaction dispatched
    handledInIter,    \* runs of handleInlineErrors in this iteration
    topSawErr,        \* the pass at the top of this iteration saw a marker
    lastPresent,      \* the isPresent(loc) check just made, if any
    lastErr,          \* the hasErrors() check just made, if any
    lastClick,        \* the clickWhenClickable call just made, if any
    submitDispatched, \* a keystroke or click went to the submit control
    followPressed,    \* a keystroke went to the follow-company toggle
    submitSucceeded,  \* an attempt of the submit action has succeeded
    errAlways,        \* every hasErrors() so far reported a marker
    wiz               \* how far a three-step wizard without errors has got

\* ChooseValue: the arguments of the call and the calls made with them.
VARIABLES
    cvLabel,     \* labelText
    cvType,      \* inputType
    cvProfile,   \* the applicant profile p
    cvFallback,  \* TRUE when llmFallback is not nil
    cvpc,        \* "call" before the first call, "again" before the second
    cvCalls      \* one record per call made: what it returned and asked

\* The campaign: AppService.StartApplying and BrowserManager.StartApplying.
VARIABLES
    apc,         \* where the campaign stands
    applying,    \* the value IsApplying() reads
    browser,     \* bm.browser: "nil" or "up"
    jobsPerPage, \* the result offset of the search link
    IDs,         \* the job identifiers accumulated so far
    idx,         \* the place in IDs of the job being handled
    offsets,     \* the offsets of the discovery navigations made so far
    roundFrom,   \* how many identifiers IDs held when the last discovery began
    lastLoad,    \* what the last call of LoadPage did and returned
    found,       \* job elements found by the last discovery, -1 before it
    roundJobs,   \* jobs handled since the last discovery
    lastJob,     \* how the job handled last went
    bmRet,       \* what BrowserManager.StartApplying returned
    svcRet       \* how the service call ended

\* AppService.StopBrowser.
VARIABLES
    stopRet      \* what the calls of StopBrowser made so far returned

\* A second call of the service, made while the first is under way.
VARIABLES
    spc,         \* where the second call stands
    sKind,       \* "apply" for StartApplying, "browser" for StartBrowser
    sRet         \* how the second call ended

\* The profile store.
VARIABLES
    rows,        \* the linkedin_profiles table: id -> the row's columns
    seq,         \* the largest id the table has ever held (sqlite_sequence)
    now,         \* what CURRENT_TIMESTAMP reads
    stCall,      \* the call of the store made last, with its arguments
    stRet        \* what that call returned

\* hasErrors and handleInlineErrors on one page.
VARIABLES
    dom,         \* the page: where the marker, the hosts and their shadow roots are
    ipc,         \* which of hasErrors() and handleInlineErrors() have been called
    heRet,       \* what hasErrors() returned
    hieRet       \* what handleInlineErrors() found and did

\* getBestLabelText on one element of one page.
VARIABLES
    lbEl,        \* the element with what the page holds around it
    lbpc,        \* "call" before the call, "done" after it
    lbRet        \* the text the call returned

\* FillInvalids on one scope.
VARIABLES
    fiScope,     \* the elements of the scope, in document order
    fiProfile,   \* the applicant profile handed over
    fipc,        \* where the pass stands
    fiK,         \* the place in integerInputs of the input looked at next
    fiLog,       \* what the pass did with each input it has looked at
    fiRet        \* what FillInvalids returned

\* The database file and the openings of the store on it.
VARIABLES
    dbTables,      \* the tables the database file holds
    dbColumns,     \* the columns added to linkedin_profiles
    schemaVersion, \* the versions recorded in the table schema_version
    executed,      \* how often each migration statement was handed to the database
    mpc,           \* where the opening under way stands
    mi,            \* the index of the migration the loop looks at
    openings,      \* the openings begun so far
    openRet        \* how the last opening ended

extractVars == <<href, epc, ret>>

labelVars == <<lbEl, lbpc, lbRet>>

fillVars == <<fiScope, fiProfile, fipc, fiK, fiLog, fiRet>>

stopVars == <<stopRet>>

migrateVars == <<dbTables, dbColumns, schemaVersion, executed, mpc, mi, openings, openRet>>

inlineVars == <<dom, ipc, heRet, hieRet>>

storeVars == <<rows, seq, now, stCall, stRet>>

secondVars == <<spc, sKind, sRet>>

campaignVars == <<apc, applying, browser, jobsPerPage, IDs, idx, offsets, roundFrom, lastLoad,
                  found, roundJobs, lastJob, bmRet, svcRet>>

chooseVars == <<cvLabel, cvType, cvProfile, cvFallback, cvpc, cvCalls>>

engineVars == <<pc, i, j, submitted, fret>>

seenVars == <<attempts, iterChecked, iterAttempted, iterSucceeded, iterDispatched,
              handledInIter,
              topSawErr, lastPresent, lastErr, lastClick, submitDispatched, followPressed,
              submitSucceeded, errAlways, wiz>>

vars == <<extractVars, engineVars, seenVars, chooseVars, campaignVars, secondVars,
          storeVars, inlineVars, labelVars, fillVars, migrateVars, stopVars>>

(***************************************************************************)
(* Links.                                                                  *)
(***************************************************************************)

\* The longest link the model hands to ExtractJobID.
MaxHrefLen == 6

\* "TAB" stands for an ASCII control character, which url.Parse rejects.
Chars == {"/", "0", "1", "a", "-", "+", "?", "TAB"}

Digits == {"0", "1"}

\* The links of n characters.
Hrefs(n) == [1..n -> Chars]

DigitVal(c) == IF c = "1" THEN 1 ELSE 0

\* The index of the first occurrence of character c in s at or after from,
\* Len(s)+1 when there is none (strings.Index, strings.Cut).
RECURSIVE IndexFrom(_, _, _)
IndexFrom(s, c, from) ==
    IF from > Len(s) THEN Len(s) + 1
    ELSE IF s[from] = c THEN from
    ELSE IndexFrom(s, c, from + 1)

HasPrefix(s, p) == Len(s) >= Len(p) /\ SubSeq(s, 1, Len(p)) = p

\* url.Parse on a link without scheme or fragment: a control character is an
\* error; the query starts at the first "?"; a leading "//" (but not "///")
\* starts an authority that runs to the next "/"; the rest is the path.
urlParse(rawURL) ==
    IF \E k \in 1..Len(rawURL) : rawURL[k] = "TAB"
    THEN [err |-> TRUE, Host |-> <<>>, Path |-> <<>>]
    ELSE LET rest == SubSeq(rawURL, 1, IndexFrom(rawURL, "?", 1) - 1) IN
         IF HasPrefix(rest, <<"/", "/">>) /\ ~HasPrefix(rest, <<"/", "/", "/">>)
         THEN LET k == IndexFrom(rest, "/", 3) IN
              [err |-> FALSE, Host |-> SubSeq(rest, 3, k - 1),
               Path |-> SubSeq(rest, k, Len(rest))]
         ELSE [err |-> FALSE, Host |-> <<>>, Path |-> rest]

\* strings.Trim(s, "/"): every leading and every trailing slash is removed.
RECURSIVE TrimLeft(_)
TrimLeft(s) == IF s # <<>> /\ Head(s) = "/" THEN TrimLeft(Tail(s)) ELSE s

RECURSIVE TrimRight(_)
TrimRight(s) ==
    IF s # <<>> /\ s[Len(s)] = "/" THEN TrimRight(SubSeq(s, 1, Len(s) - 1)) ELSE s

Trim(s) == TrimRight(TrimLeft(s))

\* strings.Split(s, "/"): the pieces between slashes, empty pieces kept; the
\* empty string splits into one empty piece.
RECURSIVE Split(_)
Split(s) ==
    LET k == IndexFrom(s, "/", 1) IN
    IF k > Len(s) THEN <<s>>
    ELSE <<SubSeq(s, 1, k - 1)>> \o Split(SubSeq(s, k + 1, Len(s)))

\* The digit loop of strconv.Atoi: n = n*10 + digit, a non-digit is an error.
RECURSIVE AtoiDigits(_, _)
AtoiDigits(s, n) ==
    IF s = <<>> THEN [err |-> FALSE, n |-> n]
    ELSE IF Head(s) \notin Digits THEN [err |-> TRUE, n |-> 0]
    ELSE AtoiDigits(Tail(s), n * 10 + DigitVal(Head(s)))

\* strconv.Atoi: an optional sign, then at least one digit.
Atoi(s) ==
    IF s = <<>> THEN [err |-> TRUE, n |-> 0]
    ELSE LET signed == Head(s) \in {"-", "+"}
             body == IF signed THEN Tail(s) ELSE s
             r == AtoiDigits(body, 0)
         IN  IF body = <<>> \/ r.err THEN [err |-> TRUE, n |-> 0]
             ELSE [err |-> FALSE, n |-> IF Head(s) = "-" THEN 0 - r.n ELSE r.n]

\* The guard ExtractJobID puts before reading segments[2].
TooFewSegments(segments) == Len(segments) < 2

\* A slip that reads the second piece instead of the third.
JobIDSegmentSecond(segments) == segments[2]

\* Go's segments[2], the third piece (sequences here start at 1).
JobIDSegment(segments) == segments[3]

\* ExtractJobID(href): (id, ok), or a run-time panic when the index is out
\* of range.
ExtractJobID(h) ==
    LET parsedURL == urlParse(h) IN
    IF parsedURL.err THEN [id |-> 0, ok |-> FALSE, panic |-> FALSE]
    ELSE LET segments == Split(Trim(parsedURL.Path)) IN
         IF TooFewSegments(segments) THEN [id |-> 0, ok |-> FALSE, panic |-> FALSE]
         ELSE IF Len(segments) < 3 THEN [id |-> 0, ok |-> FALSE, panic |-> TRUE]
         ELSE LET a == Atoi(JobIDSegment(segments)) IN
              IF a.err THEN [id |-> 0, ok |-> FALSE, panic |-> FALSE]
              ELSE [id |-> a.n, ok |-> TRUE, panic |-> FALSE]

NoRet == [id |-> 0, ok |-> FALSE, panic |-> FALSE]

NoFret == [submitted |-> FALSE, err |-> "none"]

NoCheck == [j |-> -1, present |-> FALSE]

NoClick == [j |-> -1, found |-> "absent", dispatched |-> "none", ok |-> FALSE]

\* The observer's record before the engine has done anything.
SeenNothing ==
    /\ attempts = 0
    /\ iterChecked = {}
    /\ iterAttempted = {}
    /\ iterSucceeded = {}
    /\ iterDispatched = {}
    /\ handledInIter = 0
    /\ topSawErr = FALSE
    /\ lastPresent = NoCheck
    /\ lastErr = "none"
    /\ lastClick = NoClick
    /\ submitDispatched = FALSE
    /\ followPressed = FALSE
    /\ submitSucceeded = FALSE
    /\ errAlways = TRUE
    /\ wiz = "advance"

\* The engine when it is not running.
EngineIdle ==
    /\ pc = "idle"
    /\ i = 0
    /\ j = 0
    /\ submitted = FALSE
    /\ fret = NoFret
    /\ SeenNothing

\* No job handled yet.
NoJob == [id |-> 0, button |-> "none", engine |-> "none", submitted |-> FALSE,
          log |-> "none"]

\* LoadPage not called yet.
NoLoad == [err |-> "none", hovered |-> FALSE, scrolls |-> 0, read |-> FALSE]

\* The locals of a campaign that has not begun.
CampaignLocalsFresh ==
    /\ jobsPerPage = 0
    /\ IDs = <<>>
    /\ idx = 0
    /\ offsets = <<>>
    /\ roundFrom = 0
    /\ lastLoad = NoLoad
    /\ found = -1
    /\ roundJobs = 0
    /\ lastJob = NoJob
    /\ bmRet = "none"
    /\ svcRet = "none"

\* No profile: what a call of the store returns beside an error.
NoProfile == [ID |-> 0]

\* No call of the store made yet.
NoCall == [op |-> "none", id |-> 0, arg |-> <<>>]

\* The store as NewStore leaves a new database: the table without rows.
StoreEmpty ==
    /\ rows = <<>>
    /\ seq = 0
    /\ now = 0
    /\ stCall = NoCall
    /\ stRet = [err |-> "nil", profile |-> NoProfile, list |-> <<>>]

\* No page looked at, nothing returned.
NoDom == [main |-> FALSE, frames |-> <<>>]

NoHandled == [detected |-> FALSE, filled |-> {}, panic |-> FALSE]

\* The two readers of the marker are not called.
InlineOff ==
    /\ dom = NoDom
    /\ ipc = {}
    /\ heRet = "none"
    /\ hieRet = NoHandled

\* No call of getBestLabelText is made.
NoElement == [attrs |-> <<>>]

LabelOff ==
    /\ lbEl = NoElement
    /\ lbpc = "off"
    /\ lbRet = <<>>

\* No pass of FillInvalids is made.
FillOff ==
    /\ fiScope = <<>>
    /\ fiProfile = NoProfile
    /\ fipc = "off"
    /\ fiK = 0
    /\ fiLog = <<>>
    /\ fiRet = "none"

\* The database file is never opened.
MigrateOff ==
    /\ dbTables = {}
    /\ dbColumns = {}
    /\ schemaVersion = {}
    /\ executed = <<>>
    /\ mpc = "off"
    /\ mi = 0
    /\ openings = 0
    /\ openRet = "none"

\* The calls of StopBrowser are not followed.
NotFollowed == <<"off">>

StopsOff == stopRet = NotFollowed

\* No second call of the service is made.
SecondOff ==
    /\ spc = "off"
    /\ sKind = "none"
    /\ sRet = "none"

\* No campaign: the manager as NewBrowserManager leaves it.
CampaignOff ==
    /\ SecondOff
    /\ apc = "off"
    /\ applying = FALSE
    /\ browser = "nil"
    /\ CampaignLocalsFresh

\* ChooseValue before any argument has been handed to it.
ChooseOff ==
    /\ cvLabel = <<>>
    /\ cvType = <<>>
    /\ cvProfile = <<>>
    /\ cvFallback = FALSE
    /\ cvpc = "off"
    /\ cvCalls = <<>>

InitExtract ==
    /\ \E n \in 0..MaxHrefLen : href \in Hrefs(n)
    /\ epc = "call"
    /\ ret = NoRet
    /\ EngineIdle
    /\ ChooseOff
    /\ CampaignOff
    /\ StoreEmpty
    /\ InlineOff
    /\ LabelOff
    /\ FillOff
    /\ MigrateOff
    /\ StopsOff

\* One call of ExtractJobID on the link.
CallExtractJobID ==
    /\ epc = "call"
    /\ ret' = ExtractJobID(href)
    /\ epc' = "done"
    /\ UNCHANGED <<href, engineVars, seenVars, chooseVars, campaignVars, secondVars, storeVars, inlineVars, labelVars, fillVars, migrateVars, stopVars>>

NextExtract == CallExtractJobID

SpecExtract == InitExtract /\ [][NextExtract]_vars

(***************************************************************************)
(* ExtractJobID: what the link's path says, read independently of the code.*)
(***************************************************************************)

\* The pieces of the link's path between slashes, outer slashes trimmed.
PathSegments(h) == Split(Trim(urlParse(h).Path))

\* How many segments the trimmed path has: none when nothing is left.
SegCount(h) == IF Trim(urlParse(h).Path) = <<>> THEN 0 ELSE Len(PathSegments(h))

\* A base-10 integer: an optional sign and then one or more digits.
IsBase10Int(s) ==
    /\ s # <<>>
    /\ LET body == IF s[1] \in {"-", "+"} THEN Tail(s) ELSE s IN
       /\ body # <<>>
       /\ \A k \in 1..Len(body) : body[k] \in Digits

\* The number a digit string denotes, by place value from the right.
RECURSIVE PlaceValue(_)
PlaceValue(s) ==
    IF s = <<>> THEN 0
    ELSE PlaceValue(SubSeq(s, 1, Len(s) - 1)) * 10 + DigitVal(s[Len(s)])

IntValue(s) ==
    IF s[1] = "-" THEN 0 - PlaceValue(Tail(s))
    ELSE IF s[1] = "+" THEN PlaceValue(Tail(s))
    ELSE PlaceValue(s)

\* C1: for every link whose trimmed path has fewer than 3 segments, and for
\* every link whose third segment is not a base-10 integer, ExtractJobID
\* returns (0, false) as a value, without failing.
C1_ShortOrNonIntegerGivesZeroFalse ==
    (/\ epc = "done"
     /\ ~urlParse(href).err
     /\ \/ SegCount(href) < 3
        \/ ~IsBase10Int(PathSegments(href)[3]))
    => ret = [id |-> 0, ok |-> FALSE, panic |-> FALSE]

MaxIframes == 1

\* The outer loop's budget.
MaxOuter == 15

\* The priority list; Go indexes it from 0, so buttons[j + 1] is Go's buttons[j].
buttons == <<"next", "review", "follow", "submit">>

NumButtons == Len(buttons)

\* What one query for one locator finds: whether the main document holds the
\* element within the timeout, and for each iframe whether it holds it.
Lookups == [main : BOOLEAN, frames : UNION {[1..n -> BOOLEAN] : n \in 0..MaxIframes}]

InSomeFrame(look) == \E k \in DOMAIN look.frames : look.frames[k]

\* isPresent(loc): found in the main document, or else in some iframe.
isPresent(look) == look.main \/ InSomeFrame(look)

\* What handleInlineErrors finds in one iframe: the error marker, the modal
\* host, and whether the host has a shadow root.
IframeDocs == [marker : BOOLEAN, host : BOOLEAN, shadow : BOOLEAN]

FrameDocs == UNION {[1..n -> IframeDocs] : n \in 0..MaxIframes}

\* The loop of handleInlineErrors over the iframes from the k-th on: the
\* iframes FillInvalids ran on, and whether MustShadowRoot panicked on a host
\* without a shadow root.
RECURSIVE fillScopes(_, _)
fillScopes(docs, k) ==
    IF k > Len(docs) THEN [filled |-> {}, panic |-> FALSE]
    ELSE IF ~docs[k].marker \/ ~docs[k].host THEN fillScopes(docs, k + 1)
    ELSE IF ~docs[k].shadow THEN [filled |-> {}, panic |-> TRUE]
    ELSE LET r == fillScopes(docs, k + 1) IN
         [filled |-> {k} \cup r.filled, panic |-> r.panic]

\* clickWhenClickable(loc): found in the main document, it returns nil and
\* does nothing more; found in an iframe, it focuses the element and presses
\* Enter, and returns what the key press returned; found nowhere, it returns
\* the lookup's error.
clickWhenClickable(look, pressOk) ==
    IF look.main
    THEN [ok |-> TRUE, found |-> "main", dispatched |-> "none"]
    ELSE IF InSomeFrame(look)
    THEN [ok |-> pressOk, found |-> "iframe",
          dispatched |-> IF pressOk THEN "enter" ELSE "none"]
    ELSE [ok |-> FALSE, found |-> "absent", dispatched |-> "none"]

\* An off-by-one budget.
LoopCondOneMore(ii, sub) == ii <= MaxOuter /\ ~sub

\* The outer loop's condition.
LoopCond(ii, sub) == ii < MaxOuter /\ ~sub

\* An outer loop that goes straight to the priority list.
IterationEntryNoHandle == "isPresent"

\* The first statement of the outer loop's body: handleInlineErrors().
IterationEntry == "handleTop"

\* A condition that forgets the error check.
ShouldAttemptIgnoringErrors(present, errs) == present

\* The condition under which an action is attempted.
ShouldAttempt(present, errs) == present /\ ~errs

\* A submit branch that forgets to set the flag.
SetsSubmittedNever(jj) == FALSE

\* The action whose success sets submitted.
SetsSubmitted(jj) == jj = 3

\* A scan that does not stop after the advance action.
BreaksAfterSubmitOnly(jj) == jj = 3

\* A scan that does not stop after the submit action.
BreaksAfterAdvanceOnly(jj) == jj = 0

\* The actions whose success ends the scan of this iteration.
BreaksAfter(jj) == jj = 3 \/ jj = 0

\* An attempt followed by the condition of the same action again.
AfterAttemptNoHandle == "isPresent"

\* Where the engine goes after an attempt that does not end the scan: to the
\* handleInlineErrors() that closes the body of the inner loop.
AfterAttempt == "handleAfter"

\* Where the engine goes when handleInlineErrors returns: into the priority
\* list after the pass at the top, on to the next action after a pass that
\* follows an action, and to the outer loop's test after the last action.
AfterHandle(kind, ii, jj) ==
    IF kind = "top" THEN [pc |-> "isPresent", i |-> ii, j |-> 0]
    ELSE IF jj + 1 < NumButtons THEN [pc |-> "isPresent", i |-> ii, j |-> jj + 1]
    ELSE [pc |-> "loop", i |-> ii + 1, j |-> 0]

\* The control a three-step wizard shows at each of its steps.
WizControl(w) ==
    CASE w = "advance" -> 0
      [] w = "review" -> 1
      [] w = "submit" -> 3
      [] OTHER -> -1

WizNext(w) ==
    CASE w = "advance" -> "review"
      [] w = "review" -> "submit"
      [] w = "submit" -> "done"
      [] OTHER -> "off"

\* The wizard shows exactly the control of its step (the follow toggle, 2,
\* may or may not be there).
WizAfterPresent(w, jj, present) ==
    IF jj = 2 \/ (present <=> jj = WizControl(w)) THEN w ELSE "off"

\* The wizard moves on when its step's control was actioned with success.
WizAfterClick(w, jj, ok) ==
    IF jj = 2 THEN w
    ELSE IF jj = WizControl(w) /\ ok THEN WizNext(w)
    ELSE "off"

InitWizard ==
    /\ href = <<>>
    /\ epc = "off"
    /\ ret = NoRet
    /\ pc = "loop"
    /\ i = 0
    /\ j = 0
    /\ submitted = FALSE
    /\ fret = NoFret
    /\ SeenNothing
    /\ ChooseOff
    /\ CampaignOff
    /\ StoreEmpty
    /\ InlineOff
    /\ LabelOff
    /\ FillOff
    /\ MigrateOff
    /\ StopsOff

\* The outer loop's test: start the next iteration, or return.
LoopTest ==
    /\ pc = "loop"
    /\ IF LoopCond(i, submitted)
       THEN /\ pc' = IterationEntry
            /\ fret' = fret
            /\ iterChecked' = {}
            /\ iterAttempted' = {}
            /\ iterSucceeded' = {}
            /\ iterDispatched' = {}
            /\ handledInIter' = 0
            /\ topSawErr' = FALSE
       ELSE /\ pc' = "returned"
            /\ fret' = [submitted |-> submitted, err |-> "nil"]
            /\ UNCHANGED <<iterChecked, iterAttempted, iterSucceeded,
                           iterDispatched, handledInIter, topSawErr>>
    /\ lastPresent' = NoCheck
    /\ lastErr' = "none"
    /\ lastClick' = NoClick
    /\ UNCHANGED <<i, j, submitted, attempts, submitDispatched, followPressed, submitSucceeded,
                   errAlways, wiz, extractVars, chooseVars, campaignVars, secondVars, storeVars, inlineVars, labelVars, fillVars, migrateVars, stopVars>>

\* handleInlineErrors, its first statement: return unless a marker is present.
HandleCheck ==
    /\ pc \in {"handleTop", "handleAfter"}
    /\ \E look \in Lookups :
         LET kind == IF pc = "handleTop" THEN "top" ELSE "after"
             go == AfterHandle(kind, i, j)
         IN  /\ IF isPresent(look)
                THEN /\ pc' = (IF kind = "top" THEN "fillTop" ELSE "fillAfter")
                     /\ UNCHANGED <<i, j>>
                ELSE /\ pc' = go.pc
                     /\ i' = go.i
                     /\ j' = go.j
             /\ topSawErr' = (IF kind = "top" THEN isPresent(look) ELSE topSawErr)
             /\ wiz' = (IF isPresent(look) THEN "off" ELSE wiz)
    /\ handledInIter' = handledInIter + 1
    /\ lastPresent' = NoCheck
    /\ lastErr' = "none"
    /\ lastClick' = NoClick
    /\ UNCHANGED <<submitted, fret, attempts, iterChecked, iterAttempted,
                   iterSucceeded, iterDispatched, submitDispatched, followPressed, submitSucceeded,
                   errAlways, extractVars, chooseVars, campaignVars, secondVars, storeVars, inlineVars, labelVars, fillVars, migrateVars, stopVars>>

\* handleInlineErrors, the rest: FillInvalids on the shadow root of the modal
\* host of every iframe that holds the marker.
HandleFill ==
    /\ pc \in {"fillTop", "fillAfter"}
    /\ \E docs \in FrameDocs :
         LET kind == IF pc = "fillTop" THEN "top" ELSE "after"
             go == AfterHandle(kind, i, j)
         IN  IF fillScopes(docs, 1).panic
             THEN /\ pc' = "panicked"
                  /\ UNCHANGED <<i, j>>
             ELSE /\ pc' = go.pc
                  /\ i' = go.i
                  /\ j' = go.j
    /\ UNCHANGED <<submitted, fret, seenVars, extractVars, chooseVars, campaignVars, secondVars, storeVars, inlineVars, labelVars, fillVars, migrateVars, stopVars>>

\* The first half of the condition: isPresent(loc).
IsPresentStep ==
    /\ pc = "isPresent"
    /\ \E look \in Lookups :
         /\ lastPresent' = [j |-> j, present |-> isPresent(look)]
         /\ pc' = (IF isPresent(look) THEN "hasErrors" ELSE "handleAfter")
         /\ wiz' = WizAfterPresent(wiz, j, isPresent(look))
    /\ iterChecked' = iterChecked \cup {j}
    /\ UNCHANGED <<i, j, submitted, fret, attempts, iterAttempted, iterSucceeded,
                   iterDispatched, handledInIter, topSawErr, lastErr, lastClick,
                   submitDispatched, followPressed, submitSucceeded, errAlways, extractVars, chooseVars, campaignVars, secondVars, storeVars, inlineVars, labelVars, fillVars, migrateVars, stopVars>>

\* The second half of the condition: !hasErrors().
HasErrorsStep ==
    /\ pc = "hasErrors"
    /\ \E look \in Lookups :
         /\ lastErr' = (IF isPresent(look) THEN "marker" ELSE "clear")
         /\ errAlways' = (errAlways /\ isPresent(look))
         /\ pc' = (IF ShouldAttempt(lastPresent.present, isPresent(look))
                   THEN "click" ELSE "handleAfter")
         /\ wiz' = (IF isPresent(look) THEN "off" ELSE wiz)
    /\ UNCHANGED <<i, j, submitted, fret, attempts, iterChecked, iterAttempted,
                   iterSucceeded, iterDispatched, handledInIter, topSawErr,
                   lastPresent, lastClick, submitDispatched, followPressed, submitSucceeded,
                   extractVars, chooseVars, campaignVars, secondVars, storeVars, inlineVars, labelVars, fillVars, migrateVars, stopVars>>

\* The attempt: clickWhenClickable(loc) and what the engine does with its
\* result.
ClickStep ==
    /\ pc = "click"
    /\ \E look \in Lookups, pressOk \in BOOLEAN :
         LET r == clickWhenClickable(look, pressOk) IN
         /\ lastClick' = [j |-> j, found |-> r.found, dispatched |-> r.dispatched,
                          ok |-> r.ok]
         /\ iterSucceeded' = (IF r.ok THEN iterSucceeded \cup {j} ELSE iterSucceeded)
         /\ iterDispatched' = (IF r.ok /\ r.dispatched # "none"
                               THEN iterDispatched \cup {j} ELSE iterDispatched)
         /\ submitDispatched' =
              (submitDispatched \/ (buttons[j + 1] = "submit" /\ r.dispatched # "none"))
         /\ followPressed' =
              (followPressed \/ (buttons[j + 1] = "follow" /\ r.dispatched # "none"))
         /\ submitSucceeded' = (submitSucceeded \/ (buttons[j + 1] = "submit" /\ r.ok))
         /\ submitted' = (IF r.ok /\ SetsSubmitted(j) THEN TRUE ELSE submitted)
         /\ wiz' = WizAfterClick(wiz, j, r.ok)
         /\ IF r.ok /\ BreaksAfter(j)
            THEN /\ pc' = "loop"
                 /\ i' = i + 1
                 /\ j' = 0
            ELSE /\ pc' = AfterAttempt
                 /\ UNCHANGED <<i, j>>
    /\ attempts' = attempts + 1
    /\ iterAttempted' = iterAttempted \cup {j}
    /\ lastPresent' = NoCheck
    /\ lastErr' = "none"
    /\ UNCHANGED <<fret, iterChecked, handledInIter, topSawErr, errAlways,
                   extractVars, chooseVars, campaignVars, secondVars, storeVars, inlineVars, labelVars, fillVars, migrateVars, stopVars>>

\* A Must call of the engine (MustWaitLoad, MustElements, MustFrame) panics:
\* the browser session is lost or the page changed under the call.
SessionLost ==
    /\ pc \in {"handleTop", "handleAfter", "fillTop", "fillAfter", "isPresent",
               "hasErrors", "click"}
    /\ pc' = "panicked"
    /\ wiz' = "off"
    /\ UNCHANGED <<i, j, submitted, fret, attempts, iterChecked, iterAttempted,
                   iterSucceeded, iterDispatched, handledInIter, topSawErr,
                   lastPresent, lastErr, lastClick, submitDispatched, followPressed,
                   submitSucceeded, errAlways, extractVars, chooseVars, campaignVars, secondVars, storeVars, inlineVars, labelVars, fillVars, migrateVars, stopVars>>

NextWizard ==
    \/ LoopTest
    \/ HandleCheck
    \/ HandleFill
    \/ IsPresentStep
    \/ HasErrorsStep
    \/ ClickStep
    \/ SessionLost

SpecWizard == InitWizard /\ [][NextWizard]_vars

(***************************************************************************)
(* FillOutEasyApplyForm: the properties.                                   *)
(***************************************************************************)

\* A measure of the work the engine has left: the iterations left, and the
\* steps left in this iteration.
Rank ==
    CASE pc = "loop" -> (15 - i) * 30 + 29
      [] pc = "handleTop" -> (15 - i) * 30 + 28
      [] pc = "fillTop" -> (15 - i) * 30 + 27
      [] pc = "isPresent" -> (15 - i) * 30 + 26 - 6 * j
      [] pc = "hasErrors" -> (15 - i) * 30 + 25 - 6 * j
      [] pc = "click" -> (15 - i) * 30 + 24 - 6 * j
      [] pc = "handleAfter" -> (15 - i) * 30 + 23 - 6 * j
      [] pc = "fillAfter" -> (15 - i) * 30 + 22 - 6 * j
      [] OTHER -> -1

C4_ThreeStepWizardSubmits ==
    (pc = "returned" /\ wiz # "off") => (fret.submitted /\ fret.err = "nil" /\ i <= 3)

\* C4's case: the engine has returned from such a wizard, submitted.
C4_Witness ==
    /\ pc = "returned"
    /\ wiz = "done"
    /\ fret.submitted

\* C5: in every outer iteration nothing of the priority list is examined or
\* attempted before handleInlineErrors has run in that iteration, so an
\* inline error that is present has had its pass first.
C5_HandleBeforeAnyAction ==
    pc \in {"isPresent", "hasErrors", "click"} => handledInIter >= 1

\* C5's case: an action is being attempted in an iteration whose first pass
\* saw an error marker.
C5_Witness ==
    /\ pc = "click"
    /\ topSawErr
    /\ handledInIter >= 1

\* C6: an attempt counted as successful dispatched an interaction on its
\* control (a click in the main document, a confirm keystroke in an iframe),
\* and submitted=true means one was dispatched on the submit control.
C6_SuccessMeansDispatched ==
    /\ lastClick.ok =>
         lastClick.dispatched = (IF lastClick.found = "main" THEN "click" ELSE "enter")
    /\ submitted => submitDispatched

\* C7: an action is attempted only when the check made just before it found
\* its control present and found no error marker; and as long as every
\* error check reports a marker, no action is attempted at all.
C7_AttemptOnlyWhenPresentAndClear ==
    /\ pc = "click" => (lastPresent = [j |-> j, present |-> TRUE] /\ lastErr = "clear")
    /\ errAlways => attempts = 0

\* C7's case: the submit action is about to be attempted, after an earlier
\* error check had reported a marker.
C7_Witness ==
    /\ pc = "click"
    /\ j = 3
    /\ ~errAlways
    /\ lastErr = "clear"

\* C8: submitted turns true only in a successful attempt of the submit
\* action, the fourth of the list; once it is true the engine attempts
\* nothing more, runs no further error pass, starts no further iteration,
\* and returns submitted=true.
C8_SubmittedOnlyBySubmitThenReturn ==
    [][/\ (~submitted /\ submitted') =>
             (pc = "click" /\ j = 3 /\ buttons[j + 1] = "submit" /\ lastClick'.ok)
       /\ submitted =>
             (/\ pc' = "returned"
              /\ fret' = [submitted |-> TRUE, err |-> "nil"]
              /\ UNCHANGED <<submitted, i, attempts, handledInIter>>)]_vars

\* C8's case: the engine has returned submitted=true.
C8_Witness ==
    /\ pc = "returned"
    /\ submitted
    /\ fret.submitted

\* C9: once the advance action has succeeded in an iteration it is the only
\* action attempted in that iteration, the scan is over, and every scan
\* examines the actions in order from the first.
C9_AdvanceEndsTheScan ==
    /\ 0 \in iterSucceeded => (iterAttempted = {0} /\ pc \in {"loop", "returned"})
    /\ pc = "isPresent" => iterChecked = 0..(j - 1)

\* C9's case: the advance action has just succeeded in a later iteration.
C9_Witness ==
    /\ 0 \in iterSucceeded
    /\ pc = "loop"
    /\ i >= 2

\* C10: in one outer iteration at most one action of the priority list is
\* performed with success (its interaction dispatched, its attempt counted
\* as successful).
C10_OneSuccessPerIteration == Cardinality(iterDispatched) <= 1

\* C25: once an action has been attempted in an outer iteration, no further
\* action of that iteration is examined or attempted before
\* handleInlineErrors has run again: whenever the engine stands at the
\* condition or at the attempt of an action in an iteration that has had an
\* attempt, no attempt is left without a pass after it, and the passes of
\* the iteration number at least two, the one at the top and one since.
C25_HandleBetweenAttempts ==
    (pc \in {"isPresent", "hasErrors", "click"} /\ iterAttempted # {})
    => (lastClick = NoClick /\ handledInIter >= 2)

\* C25's case: a second action of the iteration is about to be attempted.
C25_Witness ==
    /\ pc = "click"
    /\ iterAttempted # {}
    /\ j \notin iterAttempted
    /\ lastClick = NoClick

\* C28: in one run of the engine a keystroke goes to the follow-company
\* toggle at most once: no attempt sends one when an earlier attempt of the
\* run has sent one already.
C28_FollowPressedOnce ==
    [][(pc = "click" /\ j = 2 /\ lastClick'.dispatched # "none") => ~followPressed]_vars

(***************************************************************************)
(* ChooseValue: the answer typed into a required field, picked from the    *)
(* field's label, its input type, the applicant profile and an optional    *)
(* fallback.  Strings are sequences of characters, as for links.           *)
(***************************************************************************)

\* The most phrases a label is put together from.
MaxLabelTokens == 2

UpperLetters == <<"A", "B", "C", "D", "E", "F", "G", "H", "I", "J", "K", "L", "M", "N", "O", "P", "Q", "R", "S", "T", "U", "V", "W", "X", "Y", "Z">>

LowerLetters == <<"a", "b", "c", "d", "e", "f", "g", "h", "i", "j", "k", "l", "m", "n", "o", "p", "q", "r", "s", "t", "u", "v", "w", "x", "y", "z">>

\* The small letter of every capital letter.
LowerOf ==
    [c \in {UpperLetters[k] : k \in 1..Len(UpperLetters)} |->
        LowerLetters[CHOOSE k \in 1..Len(UpperLetters) : UpperLetters[k] = c]]

\* unicode.ToLower on one character: a capital letter to its small letter.
ToLowerChar(c) == IF c \in DOMAIN LowerOf THEN LowerOf[c] ELSE c

\* strings.ToLower
ToLower(s) == [k \in 1..Len(s) |-> ToLowerChar(s[k])]

\* "LF" stands for the line break.
WhiteSpace == {" ", "TAB", "LF"}

\* strings.TrimSpace: white space cut from both ends.
RECURSIVE TrimSpace(_)
TrimSpace(s) ==
    IF s = <<>> THEN s
    ELSE IF s[1] \in WhiteSpace THEN TrimSpace(Tail(s))
    ELSE IF s[Len(s)] \in WhiteSpace THEN TrimSpace(SubSeq(s, 1, Len(s) - 1))
    ELSE s

\* strings.Contains(s, substr)
Contains(s, substr) ==
    \E k \in 0..(Len(s) - Len(substr)) : \A m \in 1..Len(substr) : s[k + m] = substr[m]

\* The closure containsAny of ChooseValue: some keyword of kws is in s.
containsAny(s, kws) == \E n \in 1..Len(kws) : Contains(s, kws[n])

DecimalDigits == <<"0", "1", "2", "3", "4", "5", "6", "7", "8", "9">>

\* strconv.Itoa: the decimal text of an integer, "-" before a negative one.
RECURSIVE Itoa(_)
Itoa(n) ==
    IF n < 0 THEN <<"-">> \o Itoa(0 - n)
    ELSE IF n < 10 THEN <<DecimalDigits[n + 1]>>
    ELSE Itoa(n \div 10) \o <<DecimalDigits[(n % 10) + 1]>>

\* The keyword lists of the switch in ChooseValue, in the order of its cases.
PhoneKeywords == <<<<"p", "h", "o", "n", "e">>,
                   <<"m", "o", "b", "i", "l", "e">>,
                   <<"t", "e", "l", "e", "p", "h", "o", "n", "e">>,
                   <<"c", "o", "n", "t", "a", "c", "t">>>>

CityKeywords == <<<<"c", "i", "t", "y">>,
                  <<"l", "o", "c", "a", "t", "i", "o", "n">>,
                  <<"r", "e", "s", "i", "d", "e">>>>

EverWorkedPhrase == <<"h", "a", "v", "e", " ", "y", "o", "u", " ", "e", "v", "e", "r", " ", "w", "o", "r", "k", "e", "d">>

StatePhrase == <<"s", "t", "a", "t", "e">>

SalaryKeywords == <<<<"s", "a", "l", "a", "r", "y">>,
                    <<"w", "a", "g", "e">>,
                    <<"i", "n", "c", "o", "m", "e">>,
                    <<"c", "o", "m", "p", "e", "n", "s", "a", "t", "i", "o", "n">>>>

ExperiencePhrase == <<"e", "x", "p", "e", "r", "i", "e", "n", "c", "e">>

YearPhrase == <<"y", "e", "a", "r">>

LinkedInKeywords == <<<<"l", "i", "n", "k", "e", "d", "i", "n">>,
                      <<"l", "i", "n", "k", "e", "d", "-", "i", "n">>,
                      <<"l", "i", "n", "k", "e", "d", " ", "i", "n">>>>

NumberType == <<"n", "u", "m", "b", "e", "r">>

\* The switch with its first two cases taken in the other order.
SwitchCaseStateEarly(l) ==
    IF containsAny(l, PhoneKeywords) THEN 1
    ELSE IF Contains(l, StatePhrase) THEN 4
    ELSE IF containsAny(l, CityKeywords) THEN 2
    ELSE IF Contains(l, EverWorkedPhrase) THEN 3
    ELSE IF containsAny(l, SalaryKeywords) THEN 5
    ELSE IF Contains(l, ExperiencePhrase) /\ Contains(l, YearPhrase) THEN 6
    ELSE IF containsAny(l, LinkedInKeywords) THEN 7
    ELSE 0

\* The switch of ChooseValue: the number of the first case whose condition
\* holds for the lower-cased label l, 0 when no case does.
SwitchCase(l) ==
    IF containsAny(l, PhoneKeywords) THEN 1
    ELSE IF containsAny(l, CityKeywords) THEN 2
    ELSE IF Contains(l, EverWorkedPhrase) THEN 3
    ELSE IF Contains(l, StatePhrase) THEN 4
    ELSE IF containsAny(l, SalaryKeywords) THEN 5
    ELSE IF Contains(l, ExperiencePhrase) /\ Contains(l, YearPhrase) THEN 6
    ELSE IF containsAny(l, LinkedInKeywords) THEN 7
    ELSE 0

\* What the case numbered c returns for the profile p.
CaseAnswer(c, p) ==
    CASE c = 1 -> p.PhoneNumber
      [] c = 2 -> p.UserCity \o <<",", " ">> \o p.UserState
      [] c = 3 -> <<"N", "o">>
      [] c = 4 -> p.UserState
      [] c = 5 -> Itoa(p.DesiredSalary)
      [] c = 6 -> Itoa(p.YearsExperience)
      [] c = 7 -> p.ProfileURL

\* The test for the numeric default made on the input type as it was given.
NumberDefaultAsGiven(inputType, t) == inputType = NumberType

\* The test before the fallback: the lower-cased, trimmed input type t is
\* "number".
NumberDefault(inputType, t) == t = NumberType

\* The fallback handed the lower-cased label and type.
FallbackArgsLowered(labelText, inputType, l, t) == [label |-> l, typ |-> t]

\* The arguments ChooseValue hands to llmFallback.
FallbackArgs(labelText, inputType, l, t) == [label |-> labelText, typ |-> inputType]

\* The fallback's answer taken whenever it is not blank.
AnswerTakenDespiteError(resp) == TrimSpace(resp.ans) # <<>>

\* The fallback's answer is taken: no error and not blank after trimming.
AnswerTaken(resp) == ~resp.err /\ TrimSpace(resp.ans) # <<>>

\* ChooseValue(labelText, inputType, p, llmFallback), where llmFallback is
\* TRUE when a fallback was handed in and resp is what that fallback gives
\* if this call asks it.  out is the string returned, asked the calls of
\* the fallback made on the way, each with its arguments.
ChooseValue(labelText, inputType, p, llmFallback, resp) ==
    LET l == ToLower(TrimSpace(labelText))
        t == ToLower(TrimSpace(inputType))
        c == SwitchCase(l)
    IN  IF c # 0 THEN [out |-> CaseAnswer(c, p), asked |-> <<>>]
        ELSE IF NumberDefault(inputType, t)
        THEN [out |-> Itoa(p.YearsExperience), asked |-> <<>>]
        ELSE IF llmFallback
        THEN [out |-> IF AnswerTaken(resp) THEN TrimSpace(resp.ans)
                      ELSE Itoa(p.YearsExperience),
              asked |-> <<FallbackArgs(labelText, inputType, l, t)>>]
        ELSE [out |-> Itoa(p.YearsExperience), asked |-> <<>>]

\* The phrases labels are put together from: keywords of every case of the
\* switch, some with capitals, a blank, and a phrase with no keyword in it.
Tokens == {<<"P", "h", "o", "n", "e">>,
           <<"M", "o", "b", "i", "l", "e">>,
           <<"c", "o", "n", "t", "a", "c", "t">>,
           <<"C", "i", "t", "y">>,
           <<"L", "O", "C", "A", "T", "I", "O", "N">>,
           <<"r", "e", "s", "i", "d", "e">>,
           <<"H", "a", "v", "e", " ", "y", "o", "u", " ", "e", "v", "e", "r", " ", "w", "o", "r", "k", "e", "d">>,
           <<"S", "t", "a", "t", "e">>,
           <<"s", "a", "l", "a", "r", "y">>,
           <<"i", "n", "c", "o", "m", "e">>,
           <<"c", "o", "m", "p", "e", "n", "s", "a", "t", "i", "o", "n">>,
           <<"E", "x", "p", "e", "r", "i", "e", "n", "c", "e">>,
           <<"y", "e", "a", "r", "s">>,
           <<"L", "i", "n", "k", "e", "d", "I", "n">>,
           <<"l", "i", "n", "k", "e", "d", " ", "i", "n">>,
           <<" ">>,
           <<"F", "a", "v", "o", "r", "i", "t", "e", " ", "c", "o", "l", "o", "r">>}

RECURSIVE Concat(_)
Concat(f) == IF f = <<>> THEN <<>> ELSE Head(f) \o Concat(Tail(f))

\* The labels put together from n phrases.
Labels(n) == {Concat(f) : f \in [1..n -> Tokens]}

InputTypes == {<<"t", "e", "x", "t">>, <<"n", "u", "m", "b", "e", "r">>, <<" ", "N", "U", "M", "B", "E", "R">>}

\* An applicant profile with every field filled in, and one as
\* CreateLinkedInProfile leaves it: every text blank, every number zero.
Profiles ==
    {[PhoneNumber |-> <<"5", "5", "5">>, UserCity |-> <<"A", "u", "s", "t", "i", "n">>, UserState |-> <<"T", "X">>,
      DesiredSalary |-> 90000, YearsExperience |-> 7,
      ProfileURL |-> <<"i", "n", "/", "m", "e">>],
     [PhoneNumber |-> <<>>, UserCity |-> <<>>, UserState |-> <<>>,
      DesiredSalary |-> 0, YearsExperience |-> 0, ProfileURL |-> <<>>]}

\* What a fallback can give back: an answer, an answer with blanks around
\* it, a blank answer, an empty answer, each with or without an error.
Responses ==
    [ans : {<<"Y", "e", "s">>, <<" ", "B", "l", "u", "e", " ">>, <<" ">>, <<>>},
     err : BOOLEAN]

\* The place of the fallback's answer in a call that did not ask it.
NotAsked == [ans |-> <<>>, err |-> TRUE]

InitChoose ==
    /\ \E n \in 0..MaxLabelTokens : cvLabel \in Labels(n)
    /\ cvType \in InputTypes
    /\ cvProfile \in Profiles
    /\ cvFallback \in BOOLEAN
    /\ cvpc = "call"
    /\ cvCalls = <<>>
    /\ href = <<>>
    /\ epc = "off"
    /\ ret = NoRet
    /\ EngineIdle
    /\ CampaignOff
    /\ StoreEmpty
    /\ InlineOff
    /\ LabelOff
    /\ FillOff
    /\ MigrateOff
    /\ StopsOff

\* What one call of ChooseValue with the arguments adds to the calls made;
\* the fallback, if the call asks it, gives whatever it gives this time (a
\* call that does not ask it is the same whatever it would have given).
OneCall ==
    LET quiet == ChooseValue(cvLabel, cvType, cvProfile, cvFallback, NotAsked) IN
    IF quiet.asked = <<>>
    THEN cvCalls' = Append(cvCalls, [out |-> quiet.out, asked |-> <<>>,
                                     resp |-> NotAsked])
    ELSE \E resp \in Responses :
           LET r == ChooseValue(cvLabel, cvType, cvProfile, cvFallback, resp) IN
           cvCalls' = Append(cvCalls, [out |-> r.out, asked |-> r.asked,
                                       resp |-> resp])

\* The first call of ChooseValue for a field.
CallChooseValue ==
    /\ cvpc = "call"
    /\ OneCall
    /\ cvpc' = "again"
    /\ UNCHANGED <<cvLabel, cvType, cvProfile, cvFallback, extractVars, engineVars,
                   seenVars, campaignVars, secondVars, storeVars, inlineVars, labelVars, fillVars, migrateVars, stopVars>>

\* The same field comes up again in a later pass of FillInvalids:
\* ChooseValue is called once more with the same arguments.
CallChooseValueAgain ==
    /\ cvpc = "again"
    /\ OneCall
    /\ cvpc' = "done"
    /\ UNCHANGED <<cvLabel, cvType, cvProfile, cvFallback, extractVars, engineVars,
                   seenVars, campaignVars, secondVars, storeVars, inlineVars, labelVars, fillVars, migrateVars, stopVars>>

NextChoose == CallChooseValue \/ CallChooseValueAgain

SpecChoose == InitChoose /\ [][NextChoose]_vars

(***************************************************************************)
(* ChooseValue: the rules as the resolver's contract lists them, read on   *)
(* the arguments and on what the fallback gave.                            *)
(***************************************************************************)

\* The keyword is in the label, whatever the case of the label's letters;
\* lowered is the label with every capital letter made small.
HasKeyword(lowered, kw) == Contains(lowered, kw)

HasAnyOf(lowered, kws) == \E n \in 1..Len(kws) : HasKeyword(lowered, kws[n])

\* The input type is "number", whatever its case and the blanks around it.
TypeIsNumber(typ) == ToLower(TrimSpace(typ)) = NumberType

\* Which of the seven rules that read the label hold for it.
LabelRules(label) ==
    LET lowered == ToLower(label) IN
    <<HasAnyOf(lowered, PhoneKeywords),
      HasAnyOf(lowered, CityKeywords),
      HasKeyword(lowered, EverWorkedPhrase),
      HasKeyword(lowered, StatePhrase),
      HasAnyOf(lowered, SalaryKeywords),
      HasKeyword(lowered, ExperiencePhrase) /\ HasKeyword(lowered, YearPhrase),
      HasAnyOf(lowered, LinkedInKeywords)>>

\* No rule that reads the label holds for it.
NoLabelRule(label) ==
    LET rules == LabelRules(label) IN \A r \in 1..7 : ~rules[r]

\* The fallback gave an answer that can be used: no error, not blank.
UsableAnswer(resp) == ~resp.err /\ TrimSpace(resp.ans) # <<>>

\* Which of the ten rules hold for the call recorded in c: the seven that
\* read the label, input type "number", a fallback with a usable answer,
\* and the default, which always holds.
RulesHolding(c) ==
    LabelRules(cvLabel) \o <<TypeIsNumber(cvType), cvFallback /\ UsableAnswer(c.resp), TRUE>>

\* The answer of rule r.
RuleAnswer(r, c) ==
    CASE r = 1 -> cvProfile.PhoneNumber
      [] r = 2 -> cvProfile.UserCity \o <<",", " ">> \o cvProfile.UserState
      [] r = 3 -> <<"N", "o">>
      [] r = 4 -> cvProfile.UserState
      [] r = 5 -> Itoa(cvProfile.DesiredSalary)
      [] r = 6 -> Itoa(cvProfile.YearsExperience)
      [] r = 7 -> cvProfile.ProfileURL
      [] r = 8 -> Itoa(cvProfile.YearsExperience)
      [] r = 9 -> TrimSpace(c.resp.ans)
      [] r = 10 -> Itoa(cvProfile.YearsExperience)

\* The first of the ten rules, in their fixed order, whose condition holds.
FirstRule(c) ==
    LET holds == RulesHolding(c) IN
    CHOOSE r \in 1..10 : holds[r] /\ \A q \in 1..(r - 1) : ~holds[q]

\* The call made last.
LastCall == cvCalls[Len(cvCalls)]

\* C11: every call of ChooseValue returns the answer of the first rule, in
\* the order phone, city, "have you ever worked", state, salary, experience
\* with year, linkedin, input type number, fallback, default, whose
\* condition holds; the keywords are looked for in the label as substrings
\* whatever the case of the letters.  (Every call is the last one made in
\* the state it leads to.)
C11_FirstMatchingRuleAnswers ==
    cvCalls # <<>> => LastCall.out = RuleAnswer(FirstRule(LastCall), LastCall)

\* A label with both "location" and "state" in it was answered with the
\* city and the state, the city rule coming first.
C11_Witness ==
    /\ cvLabel = <<"L", "O", "C", "A", "T", "I", "O", "N">> \o <<"S", "t", "a", "t", "e">>
    /\ cvProfile.UserCity = <<"A", "u", "s", "t", "i", "n">>
    /\ cvCalls # <<>>
    /\ cvCalls[1].out = <<"A", "u", "s", "t", "i", "n", ",", " ", "T", "X">>

\* C12: whatever the label, the input type, the profile (blank fields or
\* not) and the fallback (absent, failing, or answering with nothing),
\* every call of ChooseValue returns a string that is not empty.
C12_NeverEmpty == cvCalls # <<>> => LastCall.out # <<>>

C14_FallbackAskedOnceOrNever ==
    cvCalls # <<>> =>
        IF NoLabelRule(cvLabel) /\ ~TypeIsNumber(cvType) /\ cvFallback
        THEN LastCall.asked = <<[label |-> cvLabel, typ |-> cvType]>>
        ELSE LastCall.asked = <<>>

\* A label with capitals and no keyword, of a text input, was resolved by a
\* call that asked the fallback once.
C14_Witness ==
    /\ cvLabel = <<"F", "a", "v", "o", "r", "i", "t", "e", " ", "c", "o", "l", "o", "r">>
    /\ cvType = <<"t", "e", "x", "t">>
    /\ cvFallback
    /\ cvCalls # <<>>
    /\ Len(LastCall.asked) = 1

\* The answer is empty or made of white space only.
BlankAnswer(ans) == \A k \in 1..Len(ans) : ans[k] \in WhiteSpace

\* C15: when no label rule holds and the input type is not "number", a call
\* of ChooseValue returns the years of experience as a decimal string
\* whenever there is no fallback, the fallback gave an error, or its answer
\* was empty or white space only; it returns the fallback's answer (without
\* the white space around it) only when that answer came without an error
\* and was not blank.
C15_YearsUnlessUsableAnswer ==
    (cvCalls # <<>> /\ NoLabelRule(cvLabel) /\ ~TypeIsNumber(cvType)) =>
        IF cvFallback /\ ~LastCall.resp.err /\ ~BlankAnswer(LastCall.resp.ans)
        THEN LastCall.out = TrimSpace(LastCall.resp.ans)
        ELSE LastCall.out = Itoa(cvProfile.YearsExperience)

\* The fallback was asked, gave "Yes" together with an error, and the call
\* returned the seven years of experience instead.
C15_Witness ==
    /\ cvCalls # <<>>
    /\ LastCall.asked # <<>>
    /\ LastCall.resp = [ans |-> <<"Y", "e", "s">>, err |-> TRUE]
    /\ cvProfile.YearsExperience = 7
    /\ LastCall.out = <<"7">>

(***************************************************************************)
(* The campaign: the start button of the panel, AppService.StartApplying,  *)
(* BrowserManager.StartApplying with its discovery rounds and its loop     *)
(* over the accumulated job identifiers, and AppService.StopBrowser.       *)
(***************************************************************************)

\* The most discovery rounds of one campaign that are followed.
MaxRounds == 2

\* The most job elements a result page shows.
MaxLinks == 2

\* The links of job cards: one that holds an identifier, one whose third
\* segment is no number, one with two segments only.
JobHrefs == {<<"/", "a", "/", "a", "/", "1", "0">>,
             <<"/", "a", "/", "a", "/", "a">>,
             <<"/", "a", "/", "a">>}

\* A job element of the result page: its anchors' links, none or one.
JobElements == {<<>>} \cup {<<h>> : h \in JobHrefs}

\* The result pages that show n job elements.
Pages(n) == [1..n -> JobElements]

\* How LoadPage can end: well, or with the error of the container lookup,
\* the hover, a scroll step or the read of the markup.
LoadOutcomes == {"ok", "noContainer", "hoverErr", "scrollErr", "htmlErr"}

\* LoadPage returns an error.
LoadPageErr(load) == load # "ok"

\* The scroll steps of LoadPage.
ScrollSteps == 14

\* A LoadPage that scrolls and reads the markup before it reports the
\* missing container.
LoadPageLateCheck(load, k) ==
    [err |-> IF load = "ok" THEN "nil" ELSE load, hovered |-> TRUE,
     scrolls |-> ScrollSteps, read |-> TRUE]

\* LoadPage, ending as `load` says, a scroll error coming at step k (from
\* 0): the error returned, whether the hover was made, the scroll steps
\* made and whether the markup was read.
LoadPage(load, k) ==
    CASE load = "noContainer" ->
           [err |-> load, hovered |-> FALSE, scrolls |-> 0, read |-> FALSE]
      [] load = "hoverErr" ->
           [err |-> load, hovered |-> FALSE, scrolls |-> 0, read |-> FALSE]
      [] load = "scrollErr" ->
           [err |-> load, hovered |-> TRUE, scrolls |-> k, read |-> FALSE]
      [] load = "htmlErr" ->
           [err |-> load, hovered |-> TRUE, scrolls |-> ScrollSteps, read |-> FALSE]
      [] OTHER ->
           [err |-> "nil", hovered |-> TRUE, scrolls |-> ScrollSteps, read |-> TRUE]

\* The test on the job elements is left out.
NoJobLinksIgnored(links) == FALSE

\* links.Empty()
NoJobLinks(links) == Len(links) = 0

\* The loops over links and their anchors: ExtractJobID on every link in
\* page order, the identifier appended to ids when ok, the link skipped when
\* not; a panic of ExtractJobID ends the walk.
RECURSIVE CollectIDs(_, _)
CollectIDs(hs, ids) ==
    IF hs = <<>> THEN [IDs |-> ids, panic |-> FALSE]
    ELSE LET r == ExtractJobID(Head(hs)) IN
         IF r.panic THEN [IDs |-> ids, panic |-> TRUE]
         ELSE IF ~r.ok THEN CollectIDs(Tail(hs), ids)
         ELSE CollectIDs(Tail(hs), Append(ids, r.id))

\* How GetEasyApplyButton can end: the first button clicked (true, nil), no
\* button (false, error), or a panic of one of its Must calls.
ButtonOutcomes == {"clicked", "missing", "panic"}

\* How FillOutEasyApplyForm can end for the campaign: it returns submitted
\* or not, always with a nil error, or one of its Must calls panics.
EngineOutcomes ==
    {[submitted |-> TRUE, err |-> "nil", panic |-> FALSE],
     [submitted |-> FALSE, err |-> "nil", panic |-> FALSE],
     [submitted |-> FALSE, err |-> "nil", panic |-> TRUE]}

\* After a missing button the loop goes on to apply all the same.
AfterNoButtonApply == "apply"

\* What follows the error of GetEasyApplyButton: continue.
AfterNoButton == "continue"

\* The line printed after FillOutEasyApplyForm returned, chosen by its
\* error alone: its first result is dropped.
JobLog(submittedResult, err) == IF err # "nil" THEN "failed" ELSE "success"

\* The test at the head of Launch is left out.
LaunchRefusedNever(b) == FALSE

\* Launch refuses with "browser already running": bm.browser is set.
LaunchRefused(b) == b # "nil"

InitCampaign ==
    /\ SecondOff
    /\ apc = "front"
    /\ applying = FALSE
    /\ browser = "nil"
    /\ CampaignLocalsFresh
    /\ href = <<>>
    /\ epc = "off"
    /\ ret = NoRet
    /\ EngineIdle
    /\ ChooseOff
    /\ StoreEmpty
    /\ InlineOff
    /\ LabelOff
    /\ FillOff
    /\ MigrateOff
    /\ StopsOff

\* The call of the service ends: nothing of the campaign goes on.
Ended(svc, bm) ==
    /\ apc' = "ended"
    /\ svcRet' = svc
    /\ bmRet' = bm

\* A Must call panics: the session is lost or the page is not as expected.
Panicked == Ended("panic", "panic")

\* ExtractJobID panics on a link of the result page: the campaign unwinds
\* with the page loaded and the session alive.
LinkPanicked == Ended("panic", "panicLink")

\* handleStartApplying of the panel: without a selected profile an error is
\* shown; otherwise SetApplying(true), then StartApplying is called.
HandleStartApplying ==
    /\ apc = "front"
    /\ \E selected \in BOOLEAN :
         IF selected
         THEN /\ applying' = TRUE
              /\ apc' = "lookup"
              /\ UNCHANGED <<svcRet, bmRet>>
         ELSE /\ Ended("notCalled", "none")
              /\ UNCHANGED applying
    /\ UNCHANGED <<browser, jobsPerPage, IDs, idx, offsets, roundFrom, lastLoad, found, roundJobs, lastJob,
                   extractVars, engineVars, seenVars, chooseVars,
                   secondVars, storeVars, inlineVars, labelVars, fillVars, migrateVars, stopVars>>

\* AppService.StartApplying, its first step: the profile is read.
ServiceLookup ==
    /\ apc = "lookup"
    /\ \E ok \in BOOLEAN :
         IF ok
         THEN apc' = "launch" /\ UNCHANGED <<svcRet, bmRet>>
         ELSE Ended("lookupErr", "none")
    /\ UNCHANGED <<applying, browser, jobsPerPage, IDs, idx, offsets, roundFrom, lastLoad, found, roundJobs,
                   lastJob, extractVars, engineVars, seenVars, chooseVars,
                   secondVars, storeVars, inlineVars, labelVars, fillVars, migrateVars, stopVars>>

\* Launch: refused while bm.browser is set; otherwise the browser process
\* is started and connected to.  bm.browser is assigned before Connect.
Launch ==
    /\ apc = "launch"
    /\ IF LaunchRefused(browser)
       THEN Ended("launchErr", "none") /\ UNCHANGED browser
       ELSE \E out \in {"ok", "launchFail", "connectFail"} :
              CASE out = "ok" ->
                     /\ browser' = "up"
                     /\ apc' = "login"
                     /\ UNCHANGED <<svcRet, bmRet>>
                [] out = "launchFail" ->
                     Ended("launchErr", "none") /\ UNCHANGED browser
                [] out = "connectFail" ->
                     Ended("launchErr", "none") /\ browser' = "up"
    /\ UNCHANGED <<applying, jobsPerPage, IDs, idx, offsets, roundFrom, lastLoad, found, roundJobs, lastJob,
                   extractVars, engineVars, seenVars, chooseVars,
                   secondVars, storeVars, inlineVars, labelVars, fillVars, migrateVars, stopVars>>

\* Login leaves bm.browser as it was when the sign-in failed.
AfterFailedLoginKept(b) == b

\* bm.browser after a failed sign-in: Login closes the browser and resets it.
AfterFailedLogin(b) == "nil"

\* Login: signed in; or not signed in, and then the browser is closed and
\* bm.browser reset; or one of its Must calls panics.
Login ==
    /\ apc = "login"
    /\ \E out \in (IF browser = "up" THEN {"in", "failed", "panic"} ELSE {"panic"}) :
         CASE out = "in" ->
                /\ apc' = "begin"
                /\ UNCHANGED <<browser, svcRet, bmRet>>
           [] out = "failed" ->
                /\ browser' = AfterFailedLogin(browser)
                /\ Ended("loginErr", "none")
           [] out = "panic" ->
                /\ Panicked
                /\ UNCHANGED browser
    /\ UNCHANGED <<applying, jobsPerPage, IDs, idx, offsets, roundFrom, lastLoad, found, roundJobs, lastJob,
                   extractVars, engineVars, seenVars, chooseVars,
                   secondVars, storeVars, inlineVars, labelVars, fillVars, migrateVars, stopVars>>

\* BrowserManager.StartApplying up to its loop: SetApplying(true), a
\* position and a location picked at random (rand.Intn panics on an empty
\* list), jobsPerPage and IDs initialised.
CampaignBegin ==
    /\ apc = "begin"
    /\ applying' = TRUE
    /\ \E lists \in BOOLEAN :
         IF lists
         THEN /\ apc' = "discover"
              /\ jobsPerPage' = 0
              /\ IDs' = <<>>
              /\ UNCHANGED <<svcRet, bmRet>>
         ELSE /\ Panicked
              /\ UNCHANGED <<jobsPerPage, IDs>>
    /\ UNCHANGED <<browser, idx, offsets, roundFrom, lastLoad, found, roundJobs, lastJob,
                   extractVars, engineVars, seenVars, chooseVars,
                   secondVars, storeVars, inlineVars, labelVars, fillVars, migrateVars, stopVars>>

\* The loop over IDs moves on from the job at idx: to the next job, or, the
\* range being over, to the next discovery round.
NextJob ==
    IF idx < Len(IDs)
    THEN idx' = idx + 1 /\ apc' = "button"
    ELSE idx' = 0 /\ apc' = "discover"

\* One discovery round: the search page at offset jobsPerPage is opened and
\* scrolled by LoadPage, its job elements are read and the identifiers of
\* their links appended to IDs.  An error of LoadPage and a page without
\* job elements make StartApplying return its error, which the service
\* drops: it returns nil.
Discover ==
    /\ apc = "discover"
    /\ Len(offsets) < MaxRounds
    /\ offsets' = Append(offsets, jobsPerPage)
    /\ roundFrom' = Len(IDs)
    /\ roundJobs' = 0
    /\ \/ /\ Panicked
          /\ UNCHANGED <<IDs, idx, found, lastLoad>>
       \/ /\ browser = "up"
          /\ \E load \in LoadOutcomes, k \in 0..(ScrollSteps - 1) :
               /\ LoadPageErr(load)
               /\ lastLoad' = LoadPage(load, k)
          /\ Ended("nil", "errLoad")
          /\ UNCHANGED <<IDs, idx, found>>
       \/ /\ browser = "up"
          /\ ~LoadPageErr("ok")
          /\ lastLoad' = LoadPage("ok", 0)
          /\ \E n \in 0..MaxLinks : \E links \in Pages(n) :
               /\ found' = Len(links)
               /\ IF NoJobLinks(links)
                  THEN /\ Ended("nil", "errNoJobs")
                       /\ UNCHANGED <<IDs, idx>>
                  ELSE LET c == CollectIDs(Concat(links), IDs) IN
                       IF c.panic
                       THEN /\ LinkPanicked
                            /\ IDs' = c.IDs
                            /\ UNCHANGED idx
                       ELSE /\ IDs' = c.IDs
                            /\ IF c.IDs = <<>>
                               THEN idx' = 0 /\ apc' = "discover"
                               ELSE idx' = 1 /\ apc' = "button"
                            /\ UNCHANGED <<svcRet, bmRet>>
    /\ UNCHANGED <<applying, browser, jobsPerPage, lastJob,
                   extractVars, engineVars, seenVars, chooseVars,
                   secondVars, storeVars, inlineVars, labelVars, fillVars, migrateVars, stopVars>>

\* The job at idx, first half: its page is opened and GetEasyApplyButton
\* looks for the Easy Apply button and clicks the first one.
JobButton ==
    /\ apc = "button"
    /\ \E out \in (IF browser = "up" THEN ButtonOutcomes ELSE {"panic"}) :
         CASE out = "panic" ->
                /\ Panicked
                /\ UNCHANGED <<idx, roundJobs, lastJob>>
           [] out = "clicked" ->
                /\ apc' = "engine"
                /\ lastJob' = [id |-> IDs[idx], button |-> "clicked", engine |-> "none",
                               submitted |-> FALSE, log |-> "none"]
                /\ UNCHANGED <<idx, roundJobs, svcRet, bmRet>>
           [] out = "missing" ->
                /\ lastJob' = [id |-> IDs[idx], button |-> "missing", engine |-> "none",
                               submitted |-> FALSE, log |-> "noButton"]
                /\ IF AfterNoButton = "continue"
                   THEN NextJob /\ roundJobs' = roundJobs + 1
                   ELSE apc' = "engine" /\ UNCHANGED <<idx, roundJobs>>
                /\ UNCHANGED <<svcRet, bmRet>>
    /\ UNCHANGED <<applying, browser, jobsPerPage, IDs, offsets, roundFrom, lastLoad, found,
                   extractVars, engineVars, seenVars, chooseVars,
                   secondVars, storeVars, inlineVars, labelVars, fillVars, migrateVars, stopVars>>

\* The job at idx, second half: FillOutEasyApplyForm runs and its outcome
\* is printed.
JobEngine ==
    /\ apc = "engine"
    /\ \E out \in (IF browser = "up" THEN EngineOutcomes
                   ELSE {e \in EngineOutcomes : e.panic}) :
         IF out.panic
         THEN /\ Panicked
              /\ UNCHANGED <<idx, roundJobs, lastJob>>
         ELSE /\ lastJob' = [lastJob EXCEPT !.engine = "returned",
                                            !.submitted = out.submitted,
                                            !.log = JobLog(out.submitted, out.err)]
              /\ roundJobs' = roundJobs + 1
              /\ NextJob
              /\ UNCHANGED <<svcRet, bmRet>>
    /\ UNCHANGED <<applying, browser, jobsPerPage, IDs, offsets, roundFrom, lastLoad, found,
                   extractVars, engineVars, seenVars, chooseVars,
                   secondVars, storeVars, inlineVars, labelVars, fillVars, migrateVars, stopVars>>

\* Calls of StopBrowser followed in one run.
MaxStops == 2

\* How bm.browser.Close() of rod can end.
CloseOutcomes == {"nil", "err"}

\* bm.browser is reset only when the closing went without an error.
AfterCloseOnSuccess(b, err) == IF err = "nil" THEN "nil" ELSE b

\* bm.browser after Close() has closed the browser: reset, whatever the
\* closing returned.
AfterClose(b, err) == "nil"

\* AppService.StopBrowser.  Close() returns nil at once when bm.browser is
\* nil; otherwise it closes the browser, resets bm.browser, sets the flag
\* to false and returns the error of the closing.  On that error the
\* service returns it; otherwise it sets the flag to false and returns nil.
\* What the call returned is kept in stopRet where the calls are followed.
StopBrowser ==
    /\ apc # "off"
    /\ stopRet # NotFollowed => Len(stopRet) < MaxStops
    /\ \E err \in (IF browser = "nil" THEN {"nil"} ELSE CloseOutcomes) :
           /\ browser' = IF browser = "nil" THEN browser ELSE AfterClose(browser, err)
           /\ applying' = FALSE
           /\ stopRet' = IF stopRet = NotFollowed THEN stopRet ELSE Append(stopRet, err)
    /\ UNCHANGED <<apc, jobsPerPage, IDs, idx, offsets, roundFrom, lastLoad, found, roundJobs, lastJob,
                   bmRet, svcRet, extractVars, engineVars, seenVars, chooseVars,
                   secondVars, storeVars, inlineVars, labelVars, fillVars, migrateVars>>

\* The start button is pressed again after a campaign has ended.
StartAgain ==
    /\ apc = "ended"
    /\ apc' = "front"
    /\ jobsPerPage' = 0
    /\ IDs' = <<>>
    /\ idx' = 0
    /\ offsets' = <<>>
    /\ roundFrom' = 0
    /\ lastLoad' = NoLoad
    /\ found' = -1
    /\ roundJobs' = 0
    /\ lastJob' = NoJob
    /\ bmRet' = "none"
    /\ svcRet' = "none"
    /\ UNCHANGED <<applying, browser, extractVars, engineVars, seenVars, chooseVars,
                   secondVars, storeVars, inlineVars, labelVars, fillVars, migrateVars, stopVars>>

NextCampaign ==
    \/ HandleStartApplying
    \/ ServiceLookup
    \/ Launch
    \/ Login
    \/ CampaignBegin
    \/ Discover
    \/ JobButton
    \/ JobEngine
    \/ StopBrowser
    \/ StartAgain

SpecCampaign == InitCampaign /\ [][NextCampaign]_vars

\* The campaign with the calls of StopBrowser followed.
InitStop ==
    /\ stopRet = <<>>
    /\ SecondOff
    /\ apc = "front"
    /\ applying = FALSE
    /\ browser = "nil"
    /\ CampaignLocalsFresh
    /\ href = <<>>
    /\ epc = "off"
    /\ ret = NoRet
    /\ EngineIdle
    /\ ChooseOff
    /\ StoreEmpty
    /\ InlineOff
    /\ LabelOff
    /\ FillOff
    /\ MigrateOff

SpecStop == InitStop /\ [][NextCampaign]_vars

(***************************************************************************)
(* The campaign: what is claimed of it.                                    *)
(***************************************************************************)

\* This step finishes the handling of a job: its button was missing, or
\* the form engine has returned.
JobDone == roundJobs' = roundJobs + 1

C17_SuccessOnlyWhenSubmitted ==
    lastJob.engine = "returned" =>
        /\ lastJob.log = "success" => lastJob.submitted
        /\ ~lastJob.submitted => lastJob.log = "failed"

\* C18: the offsets of the discovery navigations start at 0 and each is
\* strictly greater than the one before it.
C18_OffsetsIncrease ==
    /\ offsets # <<>> => offsets[1] = 0
    /\ \A k \in 1..(Len(offsets) - 1) : offsets[k + 1] > offsets[k]

\* C19: once a discovery round has found no job element, StartApplying has
\* returned its error: no further discovery is made and no job is handled
\* in that round, whatever identifiers earlier rounds accumulated.
C19_ZeroJobsEndsCampaign ==
    found = 0 =>
        /\ apc = "ended"
        /\ bmRet = "errNoJobs"
        /\ roundJobs = 0

\* The second discovery round found no job element while identifiers of
\* the first round were at hand, and StartApplying returned its error.
C19_Witness ==
    /\ found = 0
    /\ Len(offsets) = 2
    /\ IDs # <<>>
    /\ bmRet = "errNoJobs"

\* The campaign loop is running.
LoopRunning == apc \in {"discover", "button", "engine"}

\* C20: IsApplying() is true while the campaign loop runs, and false once
\* the loop has returned (no job found, page not loaded) or when the
\* campaign could not be started (profile not read, launch or login
\* failed).
C20_FlagFollowsLoop ==
    /\ LoopRunning => applying
    /\ (apc = "ended" /\ bmRet \in {"errNoJobs", "errLoad"}) => ~applying
    /\ (apc = "ended" /\ svcRet \in {"lookupErr", "launchErr", "loginErr"}) => ~applying

\* C29: a round handles only the identifiers discovered in that round: the
\* job being handled stands in IDs behind the identifiers that earlier
\* rounds had accumulated, and is none of them.
C29_RoundHandlesOwnIdsOnly ==
    apc \in {"button", "engine"} =>
        /\ idx > roundFrom
        /\ \A k \in 1..roundFrom : IDs[k] # IDs[idx]

\* C30: StartApplying never returns nil, and the loop, once running, goes
\* on unless a discovery round finds no job element, LoadPage fails, or the
\* browser session is stopped or lost under a call.
C30_LoopEndsOnlyOnDiscoveryOrStop ==
    [][LoopRunning =>
         /\ bmRet' # "nil"
         /\ ~LoopRunning' =>
               \/ bmRet' = "errNoJobs" /\ found' = 0
               \/ bmRet' = "errLoad" /\ apc = "discover"
               \/ bmRet' = "panic"]_vars

BeforeLoop == {"lookup", "launch", "login", "begin"}

StopReturns == Len(stopRet') = Len(stopRet) + 1

\* C36: when StopBrowser has returned, with an error or without one,
\* IsRunning() and IsApplying() are false, whatever went before; a call of
\* StopBrowser made when the browser is stopped already returns nil and
\* changes nothing.
C36_StoppedAfterStopBrowser ==
    [][StopReturns =>
           /\ browser' = "nil"
           /\ ~applying'
           /\ (browser = "nil" /\ ~applying) =>
                  /\ stopRet'[Len(stopRet')] = "nil"
                  /\ campaignVars' = campaignVars
                  /\ secondVars' = secondVars]_vars

\* StopBrowser was called twice during a campaign: the first call closed
\* the browser with an error, the second returned nil.
C36_Witness ==
    /\ stopRet = <<"err", "nil">>
    /\ browser = "nil"
    /\ ~applying
    /\ offsets # <<>>

\* C37: a Launch that fails leaves the manager not running: bm.browser is
\* not set when a Launch that found no browser running returns an error.
C37_FailedLaunchNotRunning ==
    [][(apc = "launch" /\ browser = "nil" /\ apc' = "ended") => browser' = "nil"]_vars

(***************************************************************************)
(* A second call of the service while the first is under way: another      *)
(* AppService.StartApplying, or AppService.StartBrowser.  The browser it   *)
(* launches is "second"; the pages of the first call belong to "up".  What *)
(* a second campaign does after it has begun touches its own locals and    *)
(* its own page only, and is not followed further.                         *)
(***************************************************************************)

InitSession ==
    /\ spc = "idle"
    /\ sKind = "none"
    /\ sRet = "none"
    /\ apc = "front"
    /\ applying = FALSE
    /\ browser = "nil"
    /\ CampaignLocalsFresh
    /\ href = <<>>
    /\ epc = "off"
    /\ ret = NoRet
    /\ EngineIdle
    /\ ChooseOff
    /\ StoreEmpty
    /\ InlineOff
    /\ LabelOff
    /\ FillOff
    /\ MigrateOff
    /\ StopsOff

\* The second call ends.
SecondEnded(how) ==
    /\ spc' = "done"
    /\ sRet' = how

\* The second call is made: StartBrowser goes to Launch at once,
\* StartApplying reads the profile first.
SecondCall ==
    /\ spc = "idle"
    /\ \E kind \in {"apply", "browser"} :
         /\ sKind' = kind
         /\ \E ok \in (IF kind = "apply" THEN BOOLEAN ELSE {TRUE}) :
              IF ok
              THEN spc' = "launch" /\ UNCHANGED sRet
              ELSE SecondEnded("lookupErr")
    /\ UNCHANGED <<campaignVars, extractVars, engineVars, seenVars, chooseVars,
                   storeVars, inlineVars, labelVars, fillVars, migrateVars, stopVars>>

\* Launch, called by the second call.
SecondLaunch ==
    /\ spc = "launch"
    /\ IF LaunchRefused(browser)
       THEN SecondEnded("alreadyRunning") /\ UNCHANGED browser
       ELSE \E out \in {"ok", "launchFail", "connectFail"} :
              CASE out = "ok" ->
                     /\ browser' = "second"
                     /\ spc' = "login"
                     /\ UNCHANGED sRet
                [] out = "launchFail" ->
                     SecondEnded("launchErr") /\ UNCHANGED browser
                [] out = "connectFail" ->
                     SecondEnded("launchErr") /\ browser' = "second"
    /\ UNCHANGED <<sKind, apc, applying, jobsPerPage, IDs, idx, offsets, roundFrom, lastLoad, found, roundJobs,
                   lastJob, bmRet, svcRet, extractVars, engineVars, seenVars, chooseVars,
                   storeVars, inlineVars, labelVars, fillVars, migrateVars, stopVars>>

\* Login, called by the second call, and what the call does after it:
\* StartBrowser closes the browser (Close does nothing when Login has
\* reset bm.browser already); StartApplying begins a campaign of its own,
\* which sets the flag and picks position and location.
SecondLogin ==
    /\ spc = "login"
    /\ \E out \in (IF browser = "second" THEN {"in", "failed", "panic"} ELSE {"panic"}) :
         CASE out = "panic" ->
                /\ SecondEnded("panic")
                /\ UNCHANGED <<browser, applying>>
           [] out = "failed" ->
                /\ browser' = AfterFailedLogin(browser)
                /\ SecondEnded(IF sKind = "apply" THEN "loginErr" ELSE "notLoggedIn")
                /\ UNCHANGED applying
           [] out = "in" ->
                IF sKind = "browser"
                THEN /\ browser' = "nil"
                     /\ applying' = FALSE
                     /\ SecondEnded("loggedIn")
                ELSE /\ applying' = TRUE
                     /\ UNCHANGED browser
                     /\ \E lists \in BOOLEAN :
                          IF lists
                          THEN spc' = "campaign" /\ UNCHANGED sRet
                          ELSE SecondEnded("panic")
    /\ UNCHANGED <<sKind, apc, jobsPerPage, IDs, idx, offsets, roundFrom, lastLoad, found, roundJobs,
                   lastJob, bmRet, svcRet, extractVars, engineVars, seenVars, chooseVars,
                   storeVars, inlineVars, labelVars, fillVars, migrateVars, stopVars>>

NextSession ==
    \/ NextCampaign
    \/ SecondCall
    \/ SecondLaunch
    \/ SecondLogin

SpecSession == InitSession /\ [][NextSession]_vars

MaxProfiles == 2

\* How far CURRENT_TIMESTAMP, which counts whole seconds, moves in one run.
MaxClock == 1

\* A []string: nil, or its elements in order.
NilSlice == [isNil |-> TRUE, elems |-> <<>>]

SliceOf(ss) == [isNil |-> FALSE, elems |-> ss]

\* A character taken as it stands.
EscapeCharPlain(c) == <<c>>

\* json.Marshal writing one character of a string: the quote and the
\* backslash are escaped, and the angle bracket is written as its unicode escape.
EscapeChar(c) ==
    IF c = "\"" THEN <<"\\", "\"">>
    ELSE IF c = "\\" THEN <<"\\", "\\">>
    ELSE IF c = "<" THEN <<"\\", "u", "0", "0", "3", "c">>
    ELSE <<c>>

RECURSIVE QuoteChars(_)
QuoteChars(s) ==
    IF Len(s) = 0 THEN <<>> ELSE EscapeChar(Head(s)) \o QuoteChars(Tail(s))

\* json.Marshal of one string.
Quote(s) == <<"\"">> \o QuoteChars(s) \o <<"\"">>

RECURSIVE JoinQuoted(_)
JoinQuoted(ss) ==
    IF Len(ss) = 0 THEN <<>>
    ELSE IF Len(ss) = 1 THEN Quote(ss[1])
    ELSE Quote(ss[1]) \o <<",">> \o JoinQuoted(Tail(ss))

\* json.Marshal of a []string: null for the nil slice, an array otherwise.
Marshal(v) ==
    IF v.isNil THEN <<"n", "u", "l", "l">> ELSE <<"[">> \o JoinQuoted(v.elems) \o <<"]">>

\* The text read is no JSON.
SyntaxError == [ok |-> FALSE, val |-> <<>>, next |-> 0]

\* json.Unmarshal reading a string whose opening quote stands before
\* position k: the characters up to the closing quote, escapes resolved.
RECURSIVE ReadString(_, _, _)
ReadString(s, k, acc) ==
    IF k > Len(s) THEN SyntaxError
    ELSE IF s[k] = "\"" THEN [ok |-> TRUE, val |-> acc, next |-> k + 1]
    ELSE IF s[k] = "\\"
    THEN IF k + 1 > Len(s) THEN SyntaxError
         ELSE IF s[k + 1] \in {"\"", "\\"}
         THEN ReadString(s, k + 2, Append(acc, s[k + 1]))
         ELSE IF /\ s[k + 1] = "u"
                 /\ k + 5 <= Len(s)
                 /\ \A m \in 1..4 : s[k + 1 + m] = <<"0", "0", "3", "c">>[m]
         THEN ReadString(s, k + 6, Append(acc, "<"))
         ELSE SyntaxError
    ELSE ReadString(s, k + 1, Append(acc, s[k]))

\* json.Unmarshal reading the elements of an array from position k on, up
\* to the bracket that closes the array and ends the text.
RECURSIVE ReadElems(_, _, _)
ReadElems(s, k, acc) ==
    IF k > Len(s) \/ s[k] # "\"" THEN SyntaxError
    ELSE LET r == ReadString(s, k + 1, <<>>)
         IN  IF ~r.ok \/ r.next > Len(s) THEN SyntaxError
             ELSE IF s[r.next] = ","
             THEN ReadElems(s, r.next + 1, Append(acc, r.val))
             ELSE IF s[r.next] = "]" /\ r.next = Len(s)
             THEN [ok |-> TRUE, val |-> Append(acc, r.val), next |-> r.next + 1]
             ELSE SyntaxError

\* json.Unmarshal of a text into a []string that holds `into`: null leaves
\* the slice as it is, an array replaces it, anything else is an error.
Unmarshal(s, into) ==
    IF s = <<"n", "u", "l", "l">> THEN [err |-> FALSE, val |-> into]
    ELSE IF s = <<"[", "]">> THEN [err |-> FALSE, val |-> SliceOf(<<>>)]
    ELSE IF Len(s) >= 2 /\ s[1] = "["
    THEN LET r == ReadElems(s, 2, <<>>)
         IN  IF r.ok THEN [err |-> FALSE, val |-> SliceOf(r.val)]
             ELSE [err |-> TRUE, val |-> into]
    ELSE [err |-> TRUE, val |-> into]

\* The list column as GetLinkedInProfile reads it into the fresh profile:
\* the parsed array, or the empty slice when the text does not parse.
ParseList(text) ==
    LET r == Unmarshal(text, NilSlice)
    IN  IF r.err THEN SliceOf(<<>>) ELSE r.val

\* The remote_only column written for the flag.
RemoteOnlyColumn(b) == IF b THEN 1 ELSE 0

\* The first id given to every row.
NextRowidFirst(sequence, ids) == 1

\* The id AUTOINCREMENT gives a new row: one more than the largest id the
\* table has ever held.
NextRowid(sequence, ids) ==
    LET largest == CHOOSE m \in ids \cup {sequence} :
                       \A k \in ids \cup {sequence} : k <= m
    IN  largest + 1

\* The row INSERT makes: the two values given, the defaults of the schema.
InsertedRow(email, password, t) ==
    [email |-> email, password |-> password, created_at |-> t, updated_at |-> t,
     phone_number |-> "", positions |-> <<"[", "]">>, locations |-> <<"[", "]">>,
     remote_only |-> 0, profile_url |-> "", years_experience |-> 0,
     user_city |-> "", user_state |-> ""]

\* The row UPDATE leaves: every column of the update set, created_at kept.
UpdatedRow(r, update, t) ==
    [email |-> update.Email, password |-> update.Password,
     phone_number |-> update.PhoneNumber,
     positions |-> Marshal(update.Positions),
     locations |-> Marshal(update.Locations),
     remote_only |-> RemoteOnlyColumn(update.RemoteOnly),
     profile_url |-> update.ProfileURL,
     years_experience |-> update.YearsExperience,
     user_city |-> update.UserCity, user_state |-> update.UserState,
     created_at |-> r.created_at, updated_at |-> t]

\* GetLinkedInProfile on a table: the row's columns read into a profile, or
\* the error of a query that finds no row.
GetLinkedInProfile(table, id) ==
    IF id \notin DOMAIN table
    THEN [err |-> "getErr", profile |-> NoProfile, list |-> <<>>]
    ELSE LET r == table[id]
         IN  [err |-> "nil",
              profile |-> [ID |-> id, Email |-> r.email, Password |-> r.password,
                           PhoneNumber |-> r.phone_number,
                           Positions |-> ParseList(r.positions),
                           Locations |-> ParseList(r.locations),
                           RemoteOnly |-> (r.remote_only = 1),
                           ProfileURL |-> r.profile_url,
                           YearsExperience |-> r.years_experience,
                           UserCity |-> r.user_city, UserState |-> r.user_state,
                           ZipCode |-> "", DesiredSalary |-> 0,
                           CreatedAt |-> r.created_at, UpdatedAt |-> r.updated_at],
              list |-> <<>>]

\* The orders ORDER BY updated_at DESC may give the rows: later updates
\* first, rows of one second in any order.
ListOrders(table) ==
    {o \in [1..Cardinality(DOMAIN table) -> DOMAIN table] :
        /\ \A a, b \in DOMAIN o : a # b => o[a] # o[b]
        /\ \A a, b \in DOMAIN o :
              a < b => table[o[a]].updated_at >= table[o[b]].updated_at}

\* Zero rows affected never reported.
NotFoundNever(affected) == FALSE

\* DeleteLinkedInProfile's test of the rows affected.
NotFound(affected) == affected = 0

\* The arguments CreateLinkedInProfile is called with.
CreateArgs == {[Email |-> "a@x", Password |-> "pw"],
               [Email |-> "", Password |-> ""]}

\* The updates UpdateLinkedInProfile is called with: one with every field
\* set and list entries that need escaping, one with every field at its zero
\* value, one whose lists hold texts that read like JSON themselves.
Updates ==
    {[Email |-> "b@x", Password |-> "new", PhoneNumber |-> "555",
      Positions |-> SliceOf(<<<<"D", "e", "v">>, <<"a", "\"", "b">>>>),
      Locations |-> SliceOf(<<<<"<", "\\">>, <<"a", ",", "b">>>>),
      RemoteOnly |-> TRUE, ProfileURL |-> "in/me", YearsExperience |-> 5,
      UserCity |-> "Austin", UserState |-> "TX"],
     [Email |-> "", Password |-> "", PhoneNumber |-> "",
      Positions |-> NilSlice, Locations |-> SliceOf(<<>>),
      RemoteOnly |-> FALSE, ProfileURL |-> "", YearsExperience |-> 0,
      UserCity |-> "", UserState |-> ""],
     [Email |-> "a@x", Password |-> "pw", PhoneNumber |-> "",
      Positions |-> SliceOf(<<<<"n", "u", "l", "l">>, <<"[", "]">>>>),
      Locations |-> SliceOf(<<<<>>>>),
      RemoteOnly |-> TRUE, ProfileURL |-> "", YearsExperience |-> -1,
      UserCity |-> "TX", UserState |-> "Austin"]}

\* The ids the calls are made with: those the table can hold and one more.
CallIds == 1..(MaxProfiles + 1)

InitStore ==
    /\ StoreEmpty
    /\ InlineOff
    /\ LabelOff
    /\ FillOff
    /\ MigrateOff
    /\ StopsOff
    /\ href = <<>>
    /\ epc = "off"
    /\ ret = NoRet
    /\ EngineIdle
    /\ ChooseOff
    /\ CampaignOff

StoreOthersUnchanged ==
    UNCHANGED <<extractVars, engineVars, seenVars, chooseVars, campaignVars,
                secondVars, inlineVars, labelVars, fillVars, migrateVars, stopVars>>

\* CreateLinkedInProfile(email, password).
CreateLinkedInProfile ==
    /\ seq < MaxProfiles
    /\ \E a \in CreateArgs :
          LET id == NextRowid(seq, DOMAIN rows)
          IN  /\ rows' = [k \in DOMAIN rows \cup {id} |->
                            IF k = id THEN InsertedRow(a.Email, a.Password, now)
                            ELSE rows[k]]
              /\ seq' = id
              /\ stCall' = [op |-> "create", id |-> 0, arg |-> a]
              /\ stRet' = GetLinkedInProfile(rows', id)
    /\ UNCHANGED now
    /\ StoreOthersUnchanged

\* GetLinkedInProfile(id).
CallGetLinkedInProfile ==
    /\ \E id \in CallIds :
          /\ stCall' = [op |-> "get", id |-> id, arg |-> <<>>]
          /\ stRet' = GetLinkedInProfile(rows, id)
    /\ UNCHANGED <<rows, seq, now>>
    /\ StoreOthersUnchanged

\* ListLinkedInProfiles().
ListLinkedInProfiles ==
    /\ \E o \in ListOrders(rows) :
          /\ stCall' = [op |-> "list", id |-> 0, arg |-> <<>>]
          /\ stRet' = [err |-> "nil", profile |-> NoProfile,
                       list |-> [k \in DOMAIN o |->
                                   GetLinkedInProfile(rows, o[k]).profile]]
    /\ UNCHANGED <<rows, seq, now>>
    /\ StoreOthersUnchanged

\* UpdateLinkedInProfile(id, update): the statement changes the row of that
\* id, if there is one, and the profile is read back.
UpdateLinkedInProfile ==
    /\ \E id \in CallIds, update \in Updates :
          /\ rows' = [k \in DOMAIN rows |->
                        IF k = id THEN UpdatedRow(rows[k], update, now)
                        ELSE rows[k]]
          /\ stCall' = [op |-> "update", id |-> id, arg |-> update]
          /\ stRet' = GetLinkedInProfile(rows', id)
    /\ UNCHANGED <<seq, now>>
    /\ StoreOthersUnchanged

\* DeleteLinkedInProfile(id).
DeleteLinkedInProfile ==
    /\ \E id \in CallIds :
          LET affected == IF id \in DOMAIN rows THEN 1 ELSE 0
          IN  /\ rows' = [k \in DOMAIN rows \ {id} |-> rows[k]]
              /\ stCall' = [op |-> "delete", id |-> id, arg |-> <<>>]
              /\ stRet' = [err |-> IF NotFound(affected) THEN "notFound" ELSE "nil",
                           profile |-> NoProfile, list |-> <<>>]
    /\ UNCHANGED <<seq, now>>
    /\ StoreOthersUnchanged

\* A second passes.
Tick ==
    /\ now < MaxClock
    /\ now' = now + 1
    /\ UNCHANGED <<rows, seq, stCall, stRet>>
    /\ StoreOthersUnchanged

NextStore ==
    \/ CreateLinkedInProfile
    \/ CallGetLinkedInProfile
    \/ ListLinkedInProfiles
    \/ UpdateLinkedInProfile
    \/ DeleteLinkedInProfile
    \/ Tick

SpecStore == InitStore /\ [][NextStore]_vars

\* The step is a call of the store of the given kind.
StoreCall(op) == stCall'.op = op /\ now' = now

\* The profile carries the ten fields of the update.
Carries(p, u) ==
    /\ p.Email = u.Email
    /\ p.Password = u.Password
    /\ p.PhoneNumber = u.PhoneNumber
    /\ p.Positions = u.Positions
    /\ p.Locations = u.Locations
    /\ p.RemoteOnly = u.RemoteOnly
    /\ p.ProfileURL = u.ProfileURL
    /\ p.YearsExperience = u.YearsExperience
    /\ p.UserCity = u.UserCity
    /\ p.UserState = u.UserState

\* The step is an update or a delete of the profile.
Rewrites(id) == (StoreCall("update") \/ StoreCall("delete")) /\ stCall'.id = id

\* C22: an update of an existing profile succeeds and the profile it returns,
\* like the profile a read of that id then gives, carries exactly the
\* update's email, password, phone number, positions, locations, remote-only
\* flag, profile URL, years of experience, city and state, while no other
\* profile changes; and what a read of a profile gives stays the same through
\* every step that is no update and no delete of that profile, a call of
\* GetLinkedInProfile returning just that.
C22_UpdateIsReadBack ==
    [][\A id \in DOMAIN rows :
          /\ (StoreCall("update") /\ stCall'.id = id) =>
                /\ stRet'.err = "nil"
                /\ stRet'.profile.ID = id
                /\ Carries(stRet'.profile, stCall'.arg)
                /\ GetLinkedInProfile(rows', id) = stRet'
                /\ \A o \in DOMAIN rows \ {id} :
                      GetLinkedInProfile(rows', o) = GetLinkedInProfile(rows, o)
          /\ ~Rewrites(id) =>
                GetLinkedInProfile(rows', id) = GetLinkedInProfile(rows, id)
          /\ (StoreCall("get") /\ stCall'.id = id) =>
                stRet' = GetLinkedInProfile(rows, id)]_vars

\* A read, made while two profiles are stored, gives the profile that the
\* update with the escaped list entries wrote.
C22_Witness ==
    /\ stCall.op = "get"
    /\ stRet.err = "nil"
    /\ stRet.profile.Email = "b@x"
    /\ stRet.profile.Positions = SliceOf(<<<<"D", "e", "v">>, <<"a", "\"", "b">>>>)
    /\ Cardinality(DOMAIN rows) = 2

\* The ids of the profiles a list holds.
ListedIds(list) == {list[k].ID : k \in DOMAIN list}

\* C23: a delete of a stored profile succeeds, after it a read of that id
\* fails and no listing holds the profile, and an id once deleted stays
\* absent; a delete of an id that is not stored returns the not-found error
\* and leaves the table as it was.
C23_DeletedIsGone ==
    [][/\ \A id \in CallIds :
             (StoreCall("delete") /\ stCall'.id = id) =>
                IF id \in DOMAIN rows
                THEN /\ stRet'.err = "nil"
                     /\ GetLinkedInProfile(rows', id).err # "nil"
                     /\ \A o \in ListOrders(rows') : \A k \in DOMAIN o : o[k] # id
                     /\ \A o \in DOMAIN rows \ {id} :
                           GetLinkedInProfile(rows', o) = GetLinkedInProfile(rows, o)
                ELSE /\ stRet'.err = "notFound"
                     /\ rows' = rows
                     /\ seq' = seq
       /\ \A id \in 1..seq : id \notin DOMAIN rows => id \notin DOMAIN rows'
       /\ StoreCall("list") =>
             /\ ListedIds(stRet'.list) = DOMAIN rows
             /\ Len(stRet'.list) = Cardinality(DOMAIN rows)]_vars

\* The first profile, created and perhaps updated, has been deleted with
\* success while the second is still stored.
C23_Witness ==
    /\ stCall.op = "delete"
    /\ stCall.id = 1
    /\ stRet.err = "nil"
    /\ DOMAIN rows = {2}

\* C24: a create returns without error a profile that has the email and the
\* password given and an id no stored profile had, a read of that id gives
\* the same record, and the profiles stored before stay as they were.
C24_CreateReturnsFreshRecord ==
    [][StoreCall("create") =>
          /\ stRet'.err = "nil"
          /\ stRet'.profile.Email = stCall'.arg.Email
          /\ stRet'.profile.Password = stCall'.arg.Password
          /\ stRet'.profile.ID \notin DOMAIN rows
          /\ DOMAIN rows' = DOMAIN rows \cup {stRet'.profile.ID}
          /\ GetLinkedInProfile(rows', stRet'.profile.ID) = stRet'
          /\ \A o \in DOMAIN rows :
                GetLinkedInProfile(rows', o) = GetLinkedInProfile(rows, o)]_vars

\* A second profile has been created beside the first.
C24_Witness ==
    /\ stCall.op = "create"
    /\ stRet.err = "nil"
    /\ stRet.profile.ID = 2
    /\ DOMAIN rows = {1, 2}

(***************************************************************************)
(* hasErrors and handleInlineErrors on one page.  The page stands still    *)
(* while a call runs: every query of the call reads the same document.     *)
(***************************************************************************)
\* One iframe of the page: whether its document holds the marker outside any
\* shadow tree, whether it holds the modal host, and what the host's shadow
\* root is: "none" when the host has none, "marker" when the marker is
\* inside it, "clear" when it is not.
FrameDoms ==
    {f \in [marker : BOOLEAN, host : BOOLEAN, shadow : {"none", "clear", "marker"}] :
        ~f.host => f.shadow = "none"}

\* The pages: the marker in the main document or not, and the iframes.
Doms == [main : BOOLEAN, frames : UNION {[1..n -> FrameDoms] : n \in 0..MaxIframes}]

\* What the queries for the marker answer on the page: Element on the main
\* document and Has on each iframe's document.  A selector query does not
\* reach into a shadow tree.
LookOf(d) ==
    [main |-> d.main, frames |-> [k \in DOMAIN d.frames |-> d.frames[k].marker]]

\* What the loop of handleInlineErrors finds in each iframe.
DocsOf(d) ==
    [k \in DOMAIN d.frames |->
        [marker |-> d.frames[k].marker, host |-> d.frames[k].host,
         shadow |-> d.frames[k].shadow # "none"]]

\* hasErrors(): isPresent of the marker's locator.
hasErrors(d) == isPresent(LookOf(d))

\* handleInlineErrors(): nothing unless isPresent finds the marker; else the
\* loop over the iframes.
handleInlineErrors(d) ==
    IF ~isPresent(LookOf(d)) THEN NoHandled
    ELSE LET r == fillScopes(DocsOf(d), 1)
         IN  [detected |-> TRUE, filled |-> r.filled, panic |-> r.panic]

InitInline ==
    /\ dom \in Doms
    /\ ipc = {}
    /\ heRet = "none"
    /\ hieRet = NoHandled
    /\ href = <<>>
    /\ epc = "off"
    /\ ret = NoRet
    /\ EngineIdle
    /\ ChooseOff
    /\ CampaignOff
    /\ StoreEmpty
    /\ LabelOff
    /\ FillOff
    /\ MigrateOff
    /\ StopsOff

InlineOthersUnchanged ==
    UNCHANGED <<extractVars, engineVars, seenVars, chooseVars, campaignVars,
                secondVars, storeVars, labelVars, fillVars, migrateVars, stopVars>>

\* One call of hasErrors(); a Must call of it panics when the session is lost.
CallHasErrors ==
    /\ "hasErrors" \notin ipc
    /\ \E lost \in BOOLEAN :
          IF lost
          THEN heRet' = "panic"
          ELSE heRet' = (IF hasErrors(dom) THEN "true" ELSE "false")
    /\ ipc' = ipc \cup {"hasErrors"}
    /\ UNCHANGED <<dom, hieRet>>
    /\ InlineOthersUnchanged

\* One call of handleInlineErrors().
CallHandleInlineErrors ==
    /\ "handleInlineErrors" \notin ipc
    /\ \E lost \in BOOLEAN :
          IF lost
          THEN hieRet' = [detected |-> FALSE, filled |-> {}, panic |-> TRUE]
          ELSE hieRet' = handleInlineErrors(dom)
    /\ ipc' = ipc \cup {"handleInlineErrors"}
    /\ UNCHANGED <<dom, heRet>>
    /\ InlineOthersUnchanged

NextInline == CallHasErrors \/ CallHandleInlineErrors

SpecInline == InitInline /\ [][NextInline]_vars

\* The marker is somewhere on the page: in the main document, in an iframe's
\* document, or in the shadow root of an iframe's modal host.
MarkerOnPage(d) ==
    \/ d.main
    \/ \E k \in DOMAIN d.frames :
          d.frames[k].marker \/ d.frames[k].shadow = "marker"

\* C26: hasErrors, when it returns, returns true exactly when the marker is
\* in the main document, in an iframe's document, or in the shadow root one
\* level below an iframe.
C26_MarkerAnywhereIsSeen ==
    heRet \in {"true", "false"} => (heRet = "true" <=> MarkerOnPage(dom))

\* The iframes whose document holds the marker and whose modal host has a
\* shadow root.
MarkedShadowRoots(d) ==
    {k \in DOMAIN d.frames :
        d.frames[k].marker /\ d.frames[k].host /\ d.frames[k].shadow # "none"}

\* C27: a call of handleInlineErrors that detected the marker and came back
\* has run FillInvalids on at least one scope, and on exactly the shadow
\* roots of the modal hosts of the iframes that hold the marker.
C27_DetectedErrorIsFilled ==
    ("handleInlineErrors" \in ipc /\ hieRet.detected) =>
        /\ hieRet.filled # {}
        /\ ~hieRet.panic
        /\ hieRet.filled = MarkedShadowRoots(dom)

(***************************************************************************)
(* getBestLabelText: the label of a form input, read off the page around   *)
(* it.  An element is described by its attributes (name -> raw value, a    *)
(* name outside the domain is an attribute the element does not carry), by *)
(* what the page holds for the two look-ups (labels: the for-value of a    *)
(* label -> the text of the first such label; byId: an id -> the text of   *)
(* the element carrying it), and by its ancestors from the parent upwards. *)
(***************************************************************************)

\* attr(el, name): "" for a missing attribute, the trimmed value otherwise.
attr(el, name) == IF name \in DOMAIN el.attrs THEN TrimSpace(el.attrs[name]) ELSE <<>>

\* The place of the first character c in s, Len(s)+1 when there is none.
FirstIndex(s, c) ==
    IF \E k \in 1..Len(s) : s[k] = c
    THEN CHOOSE k \in 1..Len(s) : s[k] = c /\ \A m \in 1..(k - 1) : s[m] # c
    ELSE Len(s) + 1

\* cssEscape(s): strings.ReplaceAll puts a backslash before every double
\* quote, going from one quote to the next.
RECURSIVE cssEscape(_)
cssEscape(s) ==
    LET k == FirstIndex(s, "\"")
    IN  IF k > Len(s) THEN s
        ELSE SubSeq(s, 1, k - 1) \o <<"\\", "\"">> \o cssEscape(SubSeq(s, k + 1, Len(s)))

\* What a selector's text stands for: a backslash makes the character after
\* it stand for itself.
RECURSIVE CssUnescape(_)
CssUnescape(s) ==
    LET k == FirstIndex(s, "\\")
    IN  IF k >= Len(s) THEN s
        ELSE SubSeq(s, 1, k - 1) \o <<s[k + 1]>> \o CssUnescape(SubSeq(s, k + 2, Len(s)))

\* page.Timeout(...).Element(selector) for a selector that names one value:
\* the first match, or an error when nothing matches before the timeout.
Element(table, escaped) ==
    LET v == CssUnescape(escaped)
    IN  IF v \in DOMAIN table THEN [found |-> TRUE, text |-> table[v]]
        ELSE [found |-> FALSE, text |-> <<>>]

\* strings.Fields: the pieces between runs of white space.
RECURSIVE Fields(_)
Fields(s) ==
    IF s = <<>> THEN <<>>
    ELSE IF Head(s) \in WhiteSpace THEN Fields(Tail(s))
    ELSE LET n == CHOOSE n \in 1..Len(s) :
                      /\ \A m \in 1..n : s[m] \notin WhiteSpace
                      /\ n = Len(s) \/ s[n + 1] \in WhiteSpace
         IN  <<SubSeq(s, 1, n)>> \o Fields(SubSeq(s, n + 1, Len(s)))

\* The pieces put together with nothing between them.
JoinTight(parts) == Concat(parts)

\* strings.Join(parts, " ")
RECURSIVE Join(_)
Join(parts) ==
    IF parts = <<>> THEN <<>>
    ELSE IF Len(parts) = 1 THEN parts[1]
    ELSE parts[1] \o <<" ">> \o Join(Tail(parts))

\* The loop over the ids of aria-labelledby: the trimmed text of every
\* element found whose text is not blank.
RECURSIVE LabelledByParts(_, _)
LabelledByParts(el, ids) ==
    IF ids = <<>> THEN <<>>
    ELSE LET node == Element(el.byId, cssEscape(Head(ids)))
             rest == LabelledByParts(el, Tail(ids))
         IN  IF node.found /\ TrimSpace(node.text) # <<>>
             THEN <<TrimSpace(node.text)>> \o rest
             ELSE rest

\* txt.split("\n")[0]: the text before the first line break.
FirstLine(txt) == SubSeq(txt, 1, IndexFrom(txt, "LF", 1) - 1)

\* The script's loop bound: how many parents it climbs.
ParentLevels == 4

EligibleTags == {<<"f", "i", "e", "l", "d", "s", "e", "t">>, <<"d", "i", "v">>}

\* The script of strategy 5 from its i-th round on: the first line of the
\* text of the first parent that is a fieldset or a div with text.
RECURSIVE WalkUp(_, _)
WalkUp(chain, n) ==
    IF n >= ParentLevels \/ n + 1 > Len(chain) THEN <<>>
    ELSE LET p == chain[n + 1]
             txt == TrimSpace(p.innerText)
         IN  IF ToLower(p.tagName) \in EligibleTags /\ txt # <<>>
             THEN TrimSpace(FirstLine(txt))
             ELSE WalkUp(chain, n + 1)

getBestLabelText(el) ==
    LET id == attr(el, "id")
        lab == Element(el.labels, cssEscape(id))
        ariaLabel == attr(el, "aria-label")
        placeholder == attr(el, "placeholder")
        ids == attr(el, "aria-labelledby")
        parts == LabelledByParts(el, Fields(ids))
        s == WalkUp(el.ancestors, 0)
    IN  IF id # <<>> /\ lab.found /\ TrimSpace(lab.text) # <<>> THEN TrimSpace(lab.text)
        ELSE IF ariaLabel # <<>> THEN ariaLabel
        ELSE IF placeholder # <<>> THEN placeholder
        ELSE IF ids # <<>> /\ parts # <<>> THEN Join(parts)
        ELSE IF ~el.evalErr /\ s # <<>> THEN TrimSpace(s)
        ELSE <<>>

\* The longest chain of ancestors looked at.
MaxAncestors == 5

\* A function with no argument: no attribute, no label, no element.
Nothing == <<>>

\* The id of the element and the labels of the page: no id; an id no label
\* points at; an id whose label is blank; an id with a double quote in it
\* whose label has text.
IdCases ==
    {[attrs |-> Nothing, labels |-> Nothing],
     [attrs |-> ("id" :> <<" ", "i", " ">>), labels |-> (<<"j">> :> <<"L">>)],
     [attrs |-> ("id" :> <<"i">>), labels |-> (<<"i">> :> <<" ">>)],
     [attrs |-> ("id" :> <<"q", "\"">>), labels |-> (<<"q", "\"">> :> <<" ", "L", " ", "l", "LF">>)]}

AriaLabelCases == {Nothing, "aria-label" :> <<" ">>, "aria-label" :> <<" ", "A", " ">>}

PlaceholderCases == {Nothing, "placeholder" :> <<"P", " ", "p">>}

\* aria-labelledby and the elements the page holds for its ids.
LabelledByCases ==
    {[attrs |-> Nothing, byId |-> Nothing],
     [attrs |-> ("aria-labelledby" :> <<" ", "a", " ", " ", "b", " ">>), byId |-> (<<"c">> :> <<"z">>)],
     [attrs |-> ("aria-labelledby" :> <<" ", "a", " ", " ", "b", " ">>), byId |-> (<<"a">> :> <<" ">>) @@ (<<"b">> :> <<" ", "y", " ">>)],
     [attrs |-> ("aria-labelledby" :> <<"a", "TAB", "b">>), byId |-> (<<"a">> :> <<"x">>) @@ (<<"b">> :> <<" ", "y", " ">>)]}

\* The parents an element can have: one that is neither a fieldset nor a
\* div, a div without text, a div and a fieldset with text.
Ancestors ==
    {[tagName |-> <<"S", "P", "A", "N">>, innerText |-> <<"s">>],
     [tagName |-> <<"D", "I", "V">>, innerText |-> <<" ", "LF">>],
     [tagName |-> <<"D", "I", "V">>, innerText |-> <<"LF", "d", " ", "LF", "e">>],
     [tagName |-> <<"F", "I", "E", "L", "D", "S", "E", "T">>, innerText |-> <<"f">>]}

\* The chains of at most n ancestors.
Chains(n) == UNION {[1..m -> Ancestors] : m \in 0..n}

\* The ancestors and whether the script of strategy 5 fails to run.
AncestryCases(n) ==
    {[ancestors |-> <<>>, evalErr |-> TRUE]} \cup
    {[ancestors |-> c, evalErr |-> FALSE] : c \in Chains(n)}

\* The elements with at most n ancestors.
Elements(n) ==
    {[attrs |-> w.attrs @@ a @@ p @@ l.attrs, labels |-> w.labels, byId |-> l.byId,
      ancestors |-> c.ancestors, evalErr |-> c.evalErr] :
        w \in IdCases, a \in AriaLabelCases, p \in PlaceholderCases,
        l \in LabelledByCases, c \in AncestryCases(n)}

InitLabel ==
    /\ lbEl \in Elements(MaxAncestors)
    /\ lbpc = "call"
    /\ lbRet = <<>>
    /\ href = <<>>
    /\ epc = "off"
    /\ ret = NoRet
    /\ EngineIdle
    /\ ChooseOff
    /\ CampaignOff
    /\ StoreEmpty
    /\ InlineOff
    /\ FillOff
    /\ MigrateOff
    /\ StopsOff

\* The call getBestLabelText(page, el).
CallGetBestLabelText ==
    /\ lbpc = "call"
    /\ lbRet' = getBestLabelText(lbEl)
    /\ lbpc' = "done"
    /\ UNCHANGED <<lbEl, extractVars, engineVars, seenVars, chooseVars, campaignVars,
                   secondVars, storeVars, inlineVars, fillVars, migrateVars, stopVars>>

NextLabel == CallGetBestLabelText

SpecLabel == InitLabel /\ [][NextLabel]_vars

\* The five sources of a label, as the specification lists them.

\* 1: the text of the label whose for-value is the element's id.
LabelForText(el) ==
    LET id == IF "id" \in DOMAIN el.attrs THEN TrimSpace(el.attrs["id"]) ELSE <<>>
    IN  IF id # <<>> /\ id \in DOMAIN el.labels THEN TrimSpace(el.labels[id]) ELSE <<>>

\* 2 and 3: an attribute's value.
AttributeText(el, name) ==
    IF name \in DOMAIN el.attrs THEN TrimSpace(el.attrs[name]) ELSE <<>>

\* The texts with one blank between neighbours.
RECURSIVE SingleSpaced(_)
SingleSpaced(texts) ==
    IF Len(texts) <= 1 THEN Concat(texts)
    ELSE SingleSpaced(SubSeq(texts, 1, Len(texts) - 1)) \o <<" ">> \o texts[Len(texts)]

NotBlank(t) == t # <<>>

\* 4: the texts of the elements aria-labelledby names, the blank ones left out.
LabelledByText(el) ==
    LET names == Fields(AttributeText(el, "aria-labelledby"))
        texts == [k \in 1..Len(names) |->
                     IF names[k] \in DOMAIN el.byId THEN TrimSpace(el.byId[names[k]])
                     ELSE <<>>]
    IN  SingleSpaced(SelectSeq(texts, NotBlank))

\* 5: the first line of the text of the nearest fieldset or div with text
\* among the first four ancestors.
AncestorText(el) ==
    LET near == {k \in 1..Len(el.ancestors) :
                    /\ k <= 4
                    /\ ToLower(el.ancestors[k].tagName) \in {<<"f", "i", "e", "l", "d", "s", "e", "t">>, <<"d", "i", "v">>}
                    /\ TrimSpace(el.ancestors[k].innerText) # <<>>}
    IN  IF el.evalErr \/ near = {} THEN <<>>
        ELSE LET t == TrimSpace(el.ancestors[CHOOSE k \in near : \A m \in near : k <= m].innerText)
                 n == CHOOSE n \in 0..Len(t) :
                          /\ \A m \in 1..n : t[m] # "LF"
                          /\ n = Len(t) \/ t[n + 1] = "LF"
             IN  TrimSpace(SubSeq(t, 1, n))

StrategyText(el, n) ==
    CASE n = 1 -> LabelForText(el)
      [] n = 2 -> AttributeText(el, "aria-label")
      [] n = 3 -> AttributeText(el, "placeholder")
      [] n = 4 -> LabelledByText(el)
      [] n = 5 -> AncestorText(el)

\* C32: getBestLabelText returns what the first of the five strategies
\* that yields a text yields, in the order label[for=id], aria-label,
\* placeholder, aria-labelledby, ancestor; it returns the empty string when
\* none of them yields a text.
C32_FirstStrategyWins ==
    lbpc = "done" =>
        \/ \E n \in 1..5 :
               /\ StrategyText(lbEl, n) # <<>>
               /\ \A m \in 1..(n - 1) : StrategyText(lbEl, m) = <<>>
               /\ lbRet = StrategyText(lbEl, n)
        \/ /\ \A n \in 1..5 : StrategyText(lbEl, n) = <<>>
           /\ lbRet = <<>>

\* A call that the first three strategies left to the fourth, which joined
\* two texts, on a page where the fifth had a text to give as well.
C32_Witness ==
    /\ lbpc = "done"
    /\ \A n \in 1..3 : StrategyText(lbEl, n) = <<>>
    /\ StrategyText(lbEl, 5) # <<>>
    /\ lbRet = <<"x", " ", "y">>

(***************************************************************************)
(* FillInvalids: one pass over the text inputs of a scope.  The scope is   *)
(* a sequence of elements in document order; the pass is followed input by *)
(* input, and fiLog keeps, for every input looked at, whether clearAndType *)
(* was called on it, with what text, and whether the typing failed.        *)
(***************************************************************************)

\* The prefix that textInputXPath asks of an id.
IdPrefix == <<"s", "i", "n", "g", "l", "e", "-", "l", "i", "n", "e", "-", "t", "e", "x", "t", "-", "f", "o", "r", "m", "-", "c", "o", "m", "p", "o", "n", "e", "n", "t", "-", "f", "o", "r", "m", "E", "l", "e", "m", "e", "n", "t", "-", "u", "r", "n", "-", "l", "i", "-", "j", "o", "b", "s", "-", "a", "p", "p", "l", "y", "f", "o", "r", "m", "c", "o", "m", "m", "o", "n", "-", "e", "a", "s", "y", "A", "p", "p", "l", "y", "F", "o", "r", "m", "E", "l", "e", "m", "e", "n", "t", "-">>

\* page.MustElementsX(textInputXPath): the places in the scope of the
\* elements whose id attribute, as written, starts with the prefix.
RECURSIVE ElementsX(_, _)
ElementsX(scope, k) ==
    IF k > Len(scope) THEN <<>>
    ELSE IF "id" \in DOMAIN scope[k].attrs /\ HasPrefix(scope[k].attrs["id"], IdPrefix)
    THEN <<k>> \o ElementsX(scope, k + 1)
    ELSE ElementsX(scope, k + 1)

\* isEmpty(el)
isEmpty(el) == TrimSpace(attr(el, "value")) = <<>>

\* strings.EqualFold on the letters of the model.
EqualFold(s, t) == ToLower(s) = ToLower(t)

\* isRequired(el)
isRequired(el) ==
    IF EqualFold(attr(el, "aria-required"), <<"t", "r", "u", "e">>) THEN TRUE
    ELSE IF "required" \in DOMAIN el.attrs THEN TRUE
    ELSE IF Contains(ToLower(attr(el, "class")), <<"r", "e", "q", "u", "i", "r", "e", "d">>) THEN TRUE
    ELSE FALSE

\* An input is filled when it is empty or required.
NeedsFillingEither(el) == isEmpty(el) \/ isRequired(el)

\* The test of the loop: an input is filled when it is empty and required.
NeedsFilling(el) == isEmpty(el) /\ isRequired(el)

\* The loop given up at the first typing that fails.
NextAfterErrorBreak(k, n) == n + 1

\* The index the loop goes on with after a failed typing, which is logged
\* and nothing more: the next one.
NextAfterError(k, n) == k + 1

\* The longest scope.
MaxInputs == 2

\* The value attribute of an input: missing, blank, filled.
ValueCases == {Nothing, "value" :> <<" ">>, "value" :> <<"v">>}

\* How an input says that it is required, or does not, with its type and
\* the one source of its label.
RequiredCases ==
    {[attrs |-> ("aria-required" :> <<"f", "a", "l", "s", "e">>) @@ ("class" :> <<"o", "p", "t", "i", "o", "n", "a", "l">>) @@ ("type" :> <<"t", "e", "x", "t">>),
      labelled |-> TRUE, labelText |-> <<"P", "h", "o", "n", "e">>],
     [attrs |-> ("aria-required" :> <<" ", "T", "R", "U", "E", " ">>) @@ ("type" :> <<" ", "N", "u", "m", "b", "e", "r">>) @@ ("aria-label" :> <<"C", "o", "l", "o", "r">>),
      labelled |-> FALSE, labelText |-> <<>>],
     [attrs |-> ("required" :> <<>>) @@ ("type" :> <<"t", "e", "x", "t">>),
      labelled |-> TRUE, labelText |-> <<" ", "M", "o", "b", "i", "l", "e", " ", "p", "h", "o", "n", "e", " ">>],
     [attrs |-> ("class" :> <<"f", "b", "-", "R", "e", "q", "u", "i", "r", "e", "d", " ", "x">>) @@ ("placeholder" :> <<"C", "i", "t", "y">>),
      labelled |-> FALSE, labelText |-> <<>>]}

\* The inputs a scope is made of: those the XPath matches, and one it does
\* not match although it is required and empty.
FieldCases ==
    {[matches |-> TRUE, attrs |-> v @@ r.attrs, labelled |-> r.labelled, labelText |-> r.labelText] :
        v \in ValueCases, r \in RequiredCases} \cup
    {[matches |-> FALSE, attrs |-> ("required" :> <<>>) @@ ("type" :> <<"t", "e", "x", "t">>),
      labelled |-> TRUE, labelText |-> <<"P", "h", "o", "n", "e">>]}

\* The input f as the k-th element of the page, with an id of its own.
Placed(f, k) ==
    LET id == (IF f.matches THEN IdPrefix ELSE <<"m", "u", "l", "t", "i", "l", "i", "n", "e", "-", "t", "e", "x", "t", "-">>) \o <<DecimalDigits[k + 1]>>
    IN  [attrs |-> ("id" :> id) @@ f.attrs,
         labels |-> IF f.labelled THEN id :> f.labelText ELSE Nothing,
         byId |-> Nothing, ancestors |-> <<>>, evalErr |-> FALSE]

\* The scopes of n inputs.
Scopes(n) == {[k \in 1..n |-> Placed(f[k], k)] : f \in [1..n -> FieldCases]}

NotLooked == [at |-> 0, typed |-> FALSE, text |-> <<>>, err |-> FALSE]

InitFill ==
    /\ \E n \in 0..MaxInputs : fiScope \in Scopes(n)
    /\ fiProfile \in Profiles
    /\ fipc = "call"
    /\ fiK = 0
    /\ fiLog = <<>>
    /\ fiRet = "none"
    /\ href = <<>>
    /\ epc = "off"
    /\ ret = NoRet
    /\ EngineIdle
    /\ ChooseOff
    /\ CampaignOff
    /\ StoreEmpty
    /\ InlineOff
    /\ LabelOff
    /\ MigrateOff
    /\ StopsOff

FillOthersUnchanged ==
    UNCHANGED <<extractVars, engineVars, seenVars, chooseVars, campaignVars,
                secondVars, storeVars, inlineVars, labelVars, migrateVars, stopVars>>

\* integerInputs := page.MustElementsX(textInputXPath), which panics when
\* the session is lost.
FillBegin ==
    /\ fipc = "call"
    /\ \E lost \in BOOLEAN :
           IF lost
           THEN /\ fipc' = "panic"
                /\ fiRet' = "panic"
                /\ fiK' = fiK
           ELSE /\ fipc' = "loop"
                /\ fiK' = 1
                /\ fiRet' = fiRet
    /\ UNCHANGED <<fiScope, fiProfile, fiLog>>
    /\ FillOthersUnchanged

\* One round of the loop over integerInputs.  FillInvalids is called with
\* no fallback (handleInlineErrors hands it nil).
FillStep ==
    /\ fipc = "loop"
    /\ LET integerInputs == ElementsX(fiScope, 1) IN
       /\ fiK <= Len(integerInputs)
       /\ LET at == integerInputs[fiK]
              inputEl == fiScope[at]
          IN  IF NeedsFilling(inputEl)
              THEN LET labelText == getBestLabelText(inputEl)
                       inputType == attr(inputEl, "type")
                       value == ChooseValue(labelText, inputType, fiProfile, FALSE, NotAsked).out
                   IN  \E err \in BOOLEAN :
                           /\ fiLog' = Append(fiLog, [at |-> at, typed |-> TRUE, text |-> value,
                                                      err |-> err])
                           /\ fiK' = IF err THEN NextAfterError(fiK, Len(integerInputs))
                                     ELSE fiK + 1
              ELSE /\ fiLog' = Append(fiLog, [NotLooked EXCEPT !.at = at])
                   /\ fiK' = fiK + 1
    /\ UNCHANGED <<fiScope, fiProfile, fipc, fiRet>>
    /\ FillOthersUnchanged

\* The loop is over: return nil.
FillReturn ==
    /\ fipc = "loop"
    /\ fiK > Len(ElementsX(fiScope, 1))
    /\ fipc' = "done"
    /\ fiRet' = "nil"
    /\ UNCHANGED <<fiScope, fiProfile, fiK, fiLog>>
    /\ FillOthersUnchanged

NextFill == FillBegin \/ FillStep \/ FillReturn

SpecFill == InitFill /\ [][NextFill]_vars

\* The three conditions of the specification on an input, read off its
\* attributes: the case of the letters of "true" and of "required" does
\* not count, and "required" may stand anywhere in the class attribute.
MatchesPattern(el) ==
    /\ "id" \in DOMAIN el.attrs
    /\ Len(el.attrs["id"]) >= Len(IdPrefix)
    /\ \A n \in 1..Len(IdPrefix) : el.attrs["id"][n] = IdPrefix[n]

BlankValue(el) ==
    "value" \in DOMAIN el.attrs => \A n \in 1..Len(el.attrs["value"]) : el.attrs["value"][n] \in WhiteSpace

MarkedRequired(el) ==
    \/ /\ "aria-required" \in DOMAIN el.attrs
       /\ ToLower(TrimSpace(el.attrs["aria-required"])) = <<"t", "r", "u", "e">>
    \/ "required" \in DOMAIN el.attrs
    \/ /\ "class" \in DOMAIN el.attrs
       /\ \E k \in 0..(Len(el.attrs["class"]) - 8) :
              ToLower(SubSeq(el.attrs["class"], k + 1, k + 8)) = <<"r", "e", "q", "u", "i", "r", "e", "d">>

\* The inputs clearAndType has been called on so far.
TypedAt == {fiLog[n].at : n \in {m \in 1..Len(fiLog) : fiLog[m].typed}}

\* C33: FillInvalids types into an input only if its id starts with the
\* prefix, its value is blank and it is required; an input with a value or
\* not required is left alone; the text typed is what ChooseValue gives for
\* the input's best label and its type.
C33_TypesOnlyRequiredEmpty ==
    /\ \A k \in TypedAt :
           /\ MatchesPattern(fiScope[k])
           /\ BlankValue(fiScope[k])
           /\ MarkedRequired(fiScope[k])
    /\ \A n \in 1..Len(fiLog) :
           LET el == fiScope[fiLog[n].at] IN
           /\ ~BlankValue(el) \/ ~MarkedRequired(el) => ~fiLog[n].typed
           /\ fiLog[n].typed =>
                  fiLog[n].text = ChooseValue(getBestLabelText(el), AttributeText(el, "type"),
                                              fiProfile, FALSE, NotAsked).out
    /\ fipc = "done" =>
           \A k \in 1..Len(fiScope) :
               ~MatchesPattern(fiScope[k]) \/ ~BlankValue(fiScope[k]) \/ ~MarkedRequired(fiScope[k])
                   => k \notin TypedAt

\* A finished pass over an input that was required and blank, into which
\* the phone number was typed, and an input that had a value, left alone.
C33_Witness ==
    /\ fipc = "done"
    /\ Len(fiLog) = 2
    /\ fiLog[1].typed /\ ~fiLog[1].err /\ fiLog[1].text = <<"5", "5", "5">>
    /\ ~fiLog[2].typed /\ MarkedRequired(fiScope[2]) /\ ~BlankValue(fiScope[2])

\* C34: a typing that fails does not end the pass: every input that is
\* required and blank is still typed into, and FillInvalids returns nil.
C34_FailureDoesNotAbort ==
    /\ (\E n \in 1..Len(fiLog) : fiLog[n].err) => fipc \in {"loop", "done"} /\ fiRet \in {"none", "nil"}
    /\ fipc = "done" =>
           /\ fiRet = "nil"
           /\ \A k \in 1..Len(fiScope) :
                  MatchesPattern(fiScope[k]) /\ BlankValue(fiScope[k]) /\ MarkedRequired(fiScope[k])
                      => k \in TypedAt

\* A finished pass in which the typing into the first input failed and the
\* second input was typed into all the same.
C34_Witness ==
    /\ fipc = "done"
    /\ fiRet = "nil"
    /\ Len(fiLog) = 2
    /\ fiLog[1].typed /\ fiLog[1].err
    /\ fiLog[2].typed /\ ~fiLog[2].err

(***************************************************************************)
(* The openings of the store on one database file: NewWithPath and         *)
(* migrate.  Every statement is committed by itself.  The database answers *)
(* as SQLite does; the statement that records a migration may fail for a   *)
(* reason of its own (the disk, a lock), and the process may be stopped    *)
(* between two statements.                                                 *)
(***************************************************************************)

\* The list migrations of migrate, in its order.
Migrations ==
    <<[kind |-> "create", table |-> "schema_version"],
      [kind |-> "create", table |-> "linkedin_profiles"],
      [kind |-> "addColumn", table |-> "linkedin_profiles", column |-> "phone_number"],
      [kind |-> "addColumn", table |-> "linkedin_profiles", column |-> "positions"],
      [kind |-> "addColumn", table |-> "linkedin_profiles", column |-> "locations"],
      [kind |-> "addColumn", table |-> "linkedin_profiles", column |-> "remote_only"],
      [kind |-> "addColumn", table |-> "linkedin_profiles", column |-> "profile_url"],
      [kind |-> "addColumn", table |-> "linkedin_profiles", column |-> "years_experience"],
      [kind |-> "addColumn", table |-> "linkedin_profiles", column |-> "user_city"],
      [kind |-> "addColumn", table |-> "linkedin_profiles", column |-> "user_state"]>>

\* The indices of the loop: i runs from 0.
Indices == 0..(Len(Migrations) - 1)

\* Openings of the store in one run.
MaxOpenings == 3

\* SELECT COUNT(*) FROM schema_version WHERE version = i: an error when the
\* table does not exist.
CountVersion(tables, versions, n) ==
    IF "schema_version" \notin tables THEN [err |-> TRUE, count |-> 0]
    ELSE [err |-> FALSE, count |-> IF n \in versions THEN 1 ELSE 0]

\* The error of the count ends migrate, except for the first migration.
QueryErrorFatal(err, n) == err /\ n > 0

\* count > 0: the migration is passed over.
AlreadyApplied(count) == count > 0

\* db.Exec(migration): CREATE TABLE IF NOT EXISTS always succeeds; ALTER
\* TABLE ... ADD COLUMN fails when the table is missing and when the table
\* has a column of that name.
ExecMigration(m, tables, columns) ==
    IF m.kind = "create"
    THEN [err |-> FALSE, tables |-> tables \cup {m.table}, columns |-> columns]
    ELSE IF m.table \notin tables \/ m.column \in columns
    THEN [err |-> TRUE, tables |-> tables, columns |-> columns]
    ELSE [err |-> FALSE, tables |-> tables, columns |-> columns \cup {m.column}]

\* INSERT INTO schema_version (version) VALUES (i) is refused when the
\* table is missing and when the version, its primary key, is in it.
InsertRefused(tables, versions, n) == "schema_version" \notin tables \/ n \in versions

InitMigrate ==
    /\ dbTables = {}
    /\ dbColumns = {}
    /\ schemaVersion = {}
    /\ executed = [n \in Indices |-> 0]
    /\ mpc = "closed"
    /\ mi = 0
    /\ openings = 0
    /\ openRet = "none"
    /\ href = <<>>
    /\ epc = "off"
    /\ ret = NoRet
    /\ EngineIdle
    /\ ChooseOff
    /\ CampaignOff
    /\ StoreEmpty
    /\ InlineOff
    /\ LabelOff
    /\ FillOff
    /\ StopsOff

MigrateOthersUnchanged ==
    UNCHANGED <<extractVars, engineVars, seenVars, chooseVars, campaignVars,
                secondVars, storeVars, inlineVars, labelVars, fillVars, stopVars>>

\* migrate returns an error, and NewWithPath closes the database.
OpeningFails(how) ==
    /\ mpc' = "closed"
    /\ openRet' = how

\* NewWithPath up to the loop of migrate.
OpenStore ==
    /\ mpc = "closed"
    /\ openings < MaxOpenings
    /\ openings' = openings + 1
    /\ mi' = 0
    /\ mpc' = "check"
    /\ openRet' = "none"
    /\ UNCHANGED <<dbTables, dbColumns, schemaVersion, executed>>
    /\ MigrateOthersUnchanged

\* The head of one round of the loop: the count is read and the migration
\* passed over when it is recorded; after the last round migrate returns
\* nil and the store is open.
MigrateCheck ==
    /\ mpc = "check"
    /\ IF mi > Len(Migrations) - 1
       THEN /\ mpc' = "open"
            /\ openRet' = "nil"
            /\ UNCHANGED mi
       ELSE LET q == CountVersion(dbTables, schemaVersion, mi) IN
            IF QueryErrorFatal(q.err, mi) THEN OpeningFails("errQuery") /\ UNCHANGED mi
            ELSE IF AlreadyApplied(q.count)
            THEN /\ mi' = mi + 1
                 /\ UNCHANGED <<mpc, openRet>>
            ELSE /\ mpc' = "apply"
                 /\ UNCHANGED <<mi, openRet>>
    /\ UNCHANGED <<dbTables, dbColumns, schemaVersion, executed, openings>>
    /\ MigrateOthersUnchanged

\* The migration is executed.
MigrateApply ==
    /\ mpc = "apply"
    /\ executed' = [executed EXCEPT ![mi] = @ + 1]
    /\ LET r == ExecMigration(Migrations[mi + 1], dbTables, dbColumns) IN
       /\ dbTables' = r.tables
       /\ dbColumns' = r.columns
       /\ IF r.err THEN OpeningFails("errMigration")
          ELSE mpc' = "record" /\ UNCHANGED openRet
    /\ UNCHANGED <<schemaVersion, mi, openings>>
    /\ MigrateOthersUnchanged

\* The migration is recorded: the insertion fails when the version is in
\* the table already, and may fail for a reason of its own.
MigrateRecord ==
    /\ mpc = "record"
    /\ \E failed \in {InsertRefused(dbTables, schemaVersion, mi), TRUE} :
         IF failed
         THEN /\ OpeningFails("errRecord")
              /\ UNCHANGED <<schemaVersion, mi>>
         ELSE /\ schemaVersion' = schemaVersion \cup {mi}
              /\ mi' = mi + 1
              /\ mpc' = "check"
              /\ UNCHANGED openRet
    /\ UNCHANGED <<dbTables, dbColumns, executed, openings>>
    /\ MigrateOthersUnchanged

\* The process is stopped while migrate runs.
Interrupt ==
    /\ mpc \in {"check", "apply", "record"}
    /\ OpeningFails("interrupted")
    /\ UNCHANGED <<dbTables, dbColumns, schemaVersion, executed, mi, openings>>
    /\ MigrateOthersUnchanged

\* Store.Close
CloseStore ==
    /\ mpc = "open"
    /\ mpc' = "closed"
    /\ UNCHANGED <<dbTables, dbColumns, schemaVersion, executed, mi, openings, openRet>>
    /\ MigrateOthersUnchanged

NextMigrate ==
    \/ OpenStore
    \/ MigrateCheck
    \/ MigrateApply
    \/ MigrateRecord
    \/ Interrupt
    \/ CloseStore

SpecMigrate == InitMigrate /\ [][NextMigrate]_vars

\* A migration whose index is recorded is not executed again.
RecordedIsSkipped ==
    [][\A n \in Indices : executed'[n] > executed[n] => n \notin schemaVersion]_vars

\* On a database with every index recorded no migration is executed and
\* migrate does not return an error.
MigratedOpensClean ==
    [][schemaVersion = Indices =>
           /\ executed' = executed
           /\ openRet' \in {"none", "nil", "interrupted"} \/ openRet' = openRet]_vars

\* C38: over all the openings of the store on one database, each migration
\* statement is executed at most once.
C38_EachMigrationOnce == \A n \in Indices : executed[n] <= 1

\* C39: migration can be resumed: after an opening that stopped between
\* the execution of a migration and the recording of its index, no later
\* opening fails at a migration statement, and an opening that succeeds
\* leaves every column added and every index recorded.
C39_InterruptedMigrationResumes ==
    /\ openRet # "errMigration"
    /\ mpc = "open" =>
           /\ schemaVersion = Indices
           /\ dbTables = {"schema_version", "linkedin_profiles"}
           /\ dbColumns = {Migrations[n + 1].column : n \in 2..(Len(Migrations) - 1)}

====
